---- MODULE Spec2Model ----
(***************************************************************************)
(* The dependency-injection container of lab7 (class Injector): the        *)
(* registry, the singleton and scoped stores, the scope flag, the          *)
(* recursive resolution of constructor dependencies, and the create_scope  *)
(* bracket.  A host program drives one Injector with register,             *)
(* get_instance and `with create_scope()` brackets, from one thread or     *)
(* from two.  Further the Keyboard of lab6 with its command history and    *)
(* redo stack, and the Person of lab4 with its property listeners.         *)
(***************************************************************************)
EXTENDS Integers, Sequences, FiniteSets, TLC

(* ---------------------------------------------------------------- bounds *)
\* register calls the host makes
MaxRegs == 2
\* objects on the heap (the host's pre-allocated object included)
MaxObjs == 3
\* create_scope brackets the host has open at once (nested `with` blocks)
MaxNesting == 2
\* frames of get_instance the interpreter allows before RecursionError
MaxDepth == 3
\* get_instance calls each thread of a multi-threaded host makes
MaxCalls == 2
\* lab6: commands the Keyboard's history holds
MaxHistory == 3
\* lab4: listeners in each of the Person's two lists
MaxListeners == 2

(* ------------------------------------------------- the host's vocabulary *)
\* class LifeStyle(Enum)
LifeStyle == {"PerRequest", "Scoped", "Singleton"}

\* the contracts the host registers and requests
Interfaces == {"Interface1", "Interface3", "InterfaceWithParams", "InterfaceWithFactory"}

\* a parameter of inspect.signature(implementation.__init__)
Param(name, kind, annotation) ==
    [name |-> name, kind |-> kind, annotation |-> annotation]

\* inspect.signature(implementation.__init__).parameters, in declaration order.
\* A class without __init__ of its own has object.__init__'s (self, *args, **kwargs),
\* and so has None, the implementation of a register call that names none.
Signature(implementation) ==
    CASE implementation = "Class1_Debug" ->
           << Param("self", "POSITIONAL_ONLY", "empty"),
              Param("args", "VAR_POSITIONAL", "empty"),
              Param("kwargs", "VAR_KEYWORD", "empty") >>
      [] implementation = "Class2_Debug" ->
           << Param("self", "POSITIONAL_ONLY", "empty"),
              Param("args", "VAR_POSITIONAL", "empty"),
              Param("kwargs", "VAR_KEYWORD", "empty") >>
      [] implementation = "Class3_Debug" ->
           << Param("self", "POSITIONAL_OR_KEYWORD", "empty"),
              Param("dep", "POSITIONAL_OR_KEYWORD", "Interface1") >>
      [] implementation = "ParametrizedClass" ->
           << Param("self", "POSITIONAL_OR_KEYWORD", "empty"),
              Param("name", "POSITIONAL_OR_KEYWORD", "str"),
              Param("level", "POSITIONAL_OR_KEYWORD", "int") >>
      [] implementation = "None" ->
           << Param("self", "POSITIONAL_ONLY", "empty"),
              Param("args", "VAR_POSITIONAL", "empty"),
              Param("kwargs", "VAR_KEYWORD", "empty") >>
      [] OTHER -> << >>

\* a value passed to a constructor: a literal of params, or a reference to an object
Lit(v) == [ref |-> FALSE, v |-> v]
Ref(o) == [ref |-> TRUE, v |-> o]

\* the object the host allocated before registering `factory=lambda: shared`
SharedObj == 1

\* the arguments of register after the interface
Binding(implementation, lifestyle, params, factory) ==
    [implementation |-> implementation, lifestyle |-> lifestyle,
     params |-> params, factory |-> factory]

\* the params dictionaries the host passes to register (name -> literal)
NoParams == << >>

\* the register calls the host chooses from, per contract: those of configure()
\* and their variations in lifestyle, params and factory
RegisterArgs(interface) ==
    CASE interface = "Interface1" ->
           { Binding("Class1_Debug", l, NoParams, "None") : l \in LifeStyle }
      [] interface = "Interface3" ->
           { Binding("Class3_Debug", l, NoParams, "None") : l \in LifeStyle }
      [] interface = "InterfaceWithParams" ->
           { Binding("ParametrizedClass", "Singleton", ("name" :> 7) @@ ("level" :> 5), "None"),
             Binding("ParametrizedClass", "Singleton", NoParams, "None"),
             Binding("ParametrizedClass", "PerRequest", ("name" :> 7), "None") }
      [] interface = "InterfaceWithFactory" ->
           { Binding("None", "PerRequest", NoParams, "fresh"),
             Binding("None", "PerRequest", NoParams, "shared"),
             Binding("None", "Scoped", NoParams, "shared") }

(* ------------------------------------------------------------- the state *)
VARIABLES
    registrations,      \* self._registrations : interface -> binding
    singletons,         \* self._singletons : interface -> object
    scoped_instances,   \* self._scoped_instances : interface -> object
    scope_active,       \* self._scope_active
    heap,               \* the objects allocated so far, by identity 1..Len(heap)
    brackets,           \* the number of create_scope brackets the host has open
    raised,             \* an exception is propagating out of the host's brackets
    nregs,              \* register calls made so far
    latest,             \* the arguments of the host's latest register call, per contract
    returned,           \* the history of the host's successful get_instance calls
    last,               \* the host's last operation and its outcome
    threads,            \* multi-threaded host: each thread's frame of get_instance
    calls,              \* multi-threaded host: the history of the threads' calls
    kb,                 \* lab6: the Keyboard and the commands it reaches
    kb_last,            \* lab6: the host's last call on the Keyboard
    person,             \* lab4: the Person, with what its last operation did
    person_last         \* lab4: the host's last operation on the Person

injector_vars == << registrations, singletons, scoped_instances, scope_active, heap,
                    brackets, raised, nregs, latest, returned, last >>
thread_vars == << threads, calls >>
keyboard_vars == << kb, kb_last >>
person_vars == << person, person_last >>

vars == << injector_vars, thread_vars, keyboard_vars, person_vars >>

\* the Injector object as one value, threaded through the calls of a resolution;
\* trace is the list of what the calls did, kept for the host's last operation
Self == [registrations |-> registrations, singletons |-> singletons,
         scoped_instances |-> scoped_instances, scope_active |-> scope_active,
         heap |-> heap, trace |-> << >>]

Event(ev, interface, impl, obj, active) ==
    [ev |-> ev, interface |-> interface, impl |-> impl, obj |-> obj, active |-> active]

Note(self, ev, interface, impl, obj) ==
    [self EXCEPT !.trace = Append(@, Event(ev, interface, impl, obj, self.scope_active))]

\* a call that returns an object / a call that raises
Return(self, obj) ==
    [self |-> self, ok |-> TRUE, inst |-> obj, err |-> "None",
     name |-> "None", impl |-> "None", kwargs |-> << >>]
Raise(self, err, name, impl) ==
    [self |-> self, ok |-> FALSE, inst |-> 0, err |-> err,
     name |-> name, impl |-> impl, kwargs |-> << >>]

\* an object: its class, its constructor arguments and, when a resolution built
\* it, the contract it was built for and the lifestyle of that contract's binding
Object(cls, interface, lifestyle, kwargs) ==
    [cls |-> cls, built_for |-> interface, lifestyle |-> lifestyle, kwargs |-> kwargs]

\* the object the host allocated itself
HostObject == Object("FactoryClass", "None", "None", << >>)

(* ------------------------------------------------------------ Injector *)
RECURSIVE get_instance(_, _, _)
RECURSIVE create_instance(_, _, _, _, _, _)
RECURSIVE resolve_kwargs(_, _, _, _, _, _, _)

\* faulty variant: entering a scope leaves the scoped store as it is
enter_scope_keep(self) ==
    [self EXCEPT !.scope_active = TRUE]

\* faulty variant: a scope entered while one is active goes on with the store it finds
enter_scope_reuse(self) ==
    IF self.scope_active
    THEN self
    ELSE [self EXCEPT !.scope_active = TRUE, !.scoped_instances = << >>]

\* Injector.create_scope up to the yield
enter_scope(self) ==
    [self EXCEPT !.scope_active = TRUE, !.scoped_instances = << >>]

\* faulty variant: leaving a scope clears the store and leaves the flag set
exit_scope_stuck(self) ==
    [self EXCEPT !.scoped_instances = << >>]

\* faulty variant: leaving a scope resets the flag and keeps the store
exit_scope_flag_only(self) ==
    [self EXCEPT !.scope_active = FALSE]

\* Injector.create_scope, the finally clause
exit_scope(self) ==
    [self EXCEPT !.scope_active = FALSE, !.scoped_instances = << >>]

\* factory(): `lambda: FactoryClass()` allocates, `lambda: shared` does not, a
\* factory of the host that raises lets its error pass through _create_instance,
\* and a factory that runs `with injector.create_scope(): pass` before it
\* allocates goes through the bracket on the Injector it was called from
call_factory(self, interface, factory) ==
    IF factory = "shared"
    THEN Return(Note(self, "factory", interface, factory, SharedObj), SharedObj)
    ELSE IF factory = "failing"
    THEN Raise(Note(self, "raise", interface, factory, 0), "FactoryError", "None", "None")
    ELSE LET s0  == IF factory = "scoping"
                    THEN Note(exit_scope(enter_scope(self)), "bracket", interface, factory, 0)
                    ELSE self
             obj == Len(s0.heap) + 1
             s1  == [s0 EXCEPT !.heap = Append(@,
                        Object("FactoryClass", interface,
                               self.registrations[interface].lifestyle, << >>))]
         IN Return(Note(s1, "factory", interface, factory, obj), obj)

\* implementation(**kwargs); None(**kwargs) raises TypeError
construct(self, interface, implementation, kwargs) ==
    IF implementation = "None"
    THEN Raise(Note(self, "raise", interface, implementation, 0), "TypeError", "None", "None")
    ELSE
    LET obj == Len(self.heap) + 1
        s1  == [self EXCEPT !.heap = Append(@,
                   Object(implementation, interface,
                          self.registrations[interface].lifestyle, kwargs))]
    IN Return(Note(s1, "construct", interface, implementation, obj), obj)

\* the parameters the loop of _create_instance skips
skipped(p) ==
    p.name = "self" \/ p.kind \in {"VAR_POSITIONAL", "VAR_KEYWORD"}

\* faulty variant: the loop passes over a parameter it cannot resolve instead of raising
resolve_kwargs_lenient(self, interface, implementation, params, i, kwargs, depth) ==
    LET sig == Signature(implementation) IN
    IF i > Len(sig) THEN [Return(self, 0) EXCEPT !.kwargs = kwargs]
    ELSE LET p == sig[i] IN
         IF skipped(p) \/ (p.name \notin DOMAIN params /\ p.annotation \notin DOMAIN self.registrations)
         THEN resolve_kwargs(self, interface, implementation, params, i + 1, kwargs, depth)
         ELSE IF p.name \in DOMAIN params
         THEN resolve_kwargs(self, interface, implementation, params, i + 1,
                             (p.name :> Lit(params[p.name])) @@ kwargs, depth)
         ELSE LET r == get_instance(self, p.annotation, depth + 1) IN
              IF r.ok
              THEN resolve_kwargs(r.self, interface, implementation, params, i + 1,
                                  (p.name :> Ref(r.inst)) @@ kwargs, depth)
              ELSE r

\* faulty variant: the declared type is requested without asking whether it is registered
resolve_kwargs_unchecked(self, interface, implementation, params, i, kwargs, depth) ==
    LET sig == Signature(implementation) IN
    IF i > Len(sig) THEN [Return(self, 0) EXCEPT !.kwargs = kwargs]
    ELSE LET p == sig[i] IN
         IF skipped(p)
         THEN resolve_kwargs(self, interface, implementation, params, i + 1, kwargs, depth)
         ELSE IF p.name \in DOMAIN params
         THEN resolve_kwargs(self, interface, implementation, params, i + 1,
                             (p.name :> Lit(params[p.name])) @@ kwargs, depth)
         ELSE IF p.annotation \in DOMAIN self.registrations
         THEN LET r == get_instance(self, p.annotation, depth + 1) IN
              IF r.ok
              THEN resolve_kwargs(r.self, interface, implementation, params, i + 1,
                                  (p.name :> Ref(r.inst)) @@ kwargs, depth)
              ELSE r
         ELSE Raise(self, "KeyError", p.name, implementation)

\* faulty variant: a dependency is built on the spot, whatever its lifestyle and the stores
resolve_kwargs_direct(self, interface, implementation, params, i, kwargs, depth) ==
    LET sig == Signature(implementation) IN
    IF i > Len(sig) THEN [Return(self, 0) EXCEPT !.kwargs = kwargs]
    ELSE LET p == sig[i] IN
         IF skipped(p)
         THEN resolve_kwargs(self, interface, implementation, params, i + 1, kwargs, depth)
         ELSE IF p.name \in DOMAIN params
         THEN resolve_kwargs(self, interface, implementation, params, i + 1,
                             (p.name :> Lit(params[p.name])) @@ kwargs, depth)
         ELSE IF p.annotation \in DOMAIN self.registrations
         THEN LET b == self.registrations[p.annotation]
                  r == IF depth >= MaxDepth
                       THEN Raise(self, "RecursionError", "None", "None")
                       ELSE create_instance(self, p.annotation, b.implementation, b.params,
                                            b.factory, depth + 1)
              IN IF r.ok
                 THEN resolve_kwargs(r.self, interface, implementation, params, i + 1,
                                     (p.name :> Ref(r.inst)) @@ kwargs, depth)
                 ELSE r
         ELSE Raise(self, "UnresolvableDependency", p.name, implementation)

\* faulty variant: a registered declared type goes before the literal of params
resolve_kwargs_type_first(self, interface, implementation, params, i, kwargs, depth) ==
    LET sig == Signature(implementation) IN
    IF i > Len(sig) THEN [Return(self, 0) EXCEPT !.kwargs = kwargs]
    ELSE LET p == sig[i] IN
         IF skipped(p)
         THEN resolve_kwargs(self, interface, implementation, params, i + 1, kwargs, depth)
         ELSE IF p.annotation \in DOMAIN self.registrations
         THEN LET r == get_instance(self, p.annotation, depth + 1) IN
              IF r.ok
              THEN resolve_kwargs(r.self, interface, implementation, params, i + 1,
                                  (p.name :> Ref(r.inst)) @@ kwargs, depth)
              ELSE r
         ELSE IF p.name \in DOMAIN params
         THEN resolve_kwargs(self, interface, implementation, params, i + 1,
                             (p.name :> Lit(params[p.name])) @@ kwargs, depth)
         ELSE Raise(self, "UnresolvableDependency", p.name, implementation)

\* faulty variant: when a dependency fails, the stores are put back as the loop found them
resolve_kwargs_rollback(self, interface, implementation, params, i, kwargs, depth) ==
    LET sig == Signature(implementation) IN
    IF i > Len(sig) THEN [Return(self, 0) EXCEPT !.kwargs = kwargs]
    ELSE LET p == sig[i] IN
         IF skipped(p)
         THEN resolve_kwargs(self, interface, implementation, params, i + 1, kwargs, depth)
         ELSE IF p.name \in DOMAIN params
         THEN resolve_kwargs(self, interface, implementation, params, i + 1,
                             (p.name :> Lit(params[p.name])) @@ kwargs, depth)
         ELSE IF p.annotation \in DOMAIN self.registrations
         THEN LET r == get_instance(self, p.annotation, depth + 1) IN
              IF r.ok
              THEN resolve_kwargs(r.self, interface, implementation, params, i + 1,
                                  (p.name :> Ref(r.inst)) @@ kwargs, depth)
              ELSE r
         ELSE Raise([self EXCEPT !.singletons = << >>, !.scoped_instances = << >>],
                    "UnresolvableDependency", p.name, implementation)

\* the loop of _create_instance from parameter i on, kwargs being what it has assembled
resolve_kwargs(self, interface, implementation, params, i, kwargs, depth) ==
    LET sig == Signature(implementation) IN
    IF i > Len(sig) THEN [Return(self, 0) EXCEPT !.kwargs = kwargs]
    ELSE LET p == sig[i] IN
         IF skipped(p)
         THEN resolve_kwargs(self, interface, implementation, params, i + 1, kwargs, depth)
         ELSE IF p.name \in DOMAIN params
         THEN resolve_kwargs(self, interface, implementation, params, i + 1,
                             (p.name :> Lit(params[p.name])) @@ kwargs, depth)
         ELSE IF p.annotation \in DOMAIN self.registrations
         THEN LET r == get_instance(self, p.annotation, depth + 1) IN
              IF r.ok
              THEN resolve_kwargs(r.self, interface, implementation, params, i + 1,
                                  (p.name :> Ref(r.inst)) @@ kwargs, depth)
              ELSE r
         ELSE Raise(self, "UnresolvableDependency", p.name, implementation)

\* faulty variant: the implementation, when the binding names one, goes before the factory
create_instance_impl_first(self, interface, implementation, params, factory, depth) ==
    LET s0 == Note(self, "create", interface, implementation, 0) IN
    IF implementation = "None" /\ factory # "None"
    THEN call_factory(s0, interface, factory)
    ELSE LET a == resolve_kwargs(s0, interface, implementation, params, 1, << >>, depth) IN
         IF a.ok THEN construct(a.self, interface, implementation, a.kwargs) ELSE a

\* Injector._create_instance
create_instance(self, interface, implementation, params, factory, depth) ==
    LET s0 == Note(self, "create", interface, implementation, 0) IN
    IF factory # "None"
    THEN call_factory(s0, interface, factory)
    ELSE LET a == resolve_kwargs(s0, interface, implementation, params, 1, << >>, depth) IN
         IF a.ok THEN construct(a.self, interface, implementation, a.kwargs) ELSE a

\* faulty variant: the singleton store is written but never consulted
get_singleton_rebuild(self, interface, b, depth) ==
    LET r == create_instance(self, interface, b.implementation, b.params, b.factory, depth) IN
    IF r.ok
    THEN Return([r.self EXCEPT !.singletons = (interface :> r.inst) @@ @], r.inst)
    ELSE r

\* faulty variant: a build that fails leaves a placeholder in the singleton store
get_singleton_placeholder(self, interface, b, depth) ==
    IF interface \notin DOMAIN self.singletons
    THEN LET r == create_instance(self, interface, b.implementation, b.params, b.factory, depth) IN
         IF r.ok
         THEN Return([r.self EXCEPT !.singletons = (interface :> r.inst) @@ @], r.inst)
         ELSE [r EXCEPT !.self.singletons = (interface :> 0) @@ @]
    ELSE Return(Note(self, "hit", interface, "None", self.singletons[interface]),
                self.singletons[interface])

\* faulty variant: the singleton store gets its entry, a placeholder, before the build
get_singleton_early(self, interface, b, depth) ==
    IF interface \notin DOMAIN self.singletons
    THEN LET s1 == [self EXCEPT !.singletons = (interface :> 0) @@ @]
             r  == create_instance(s1, interface, b.implementation, b.params, b.factory, depth)
         IN IF r.ok
            THEN Return([r.self EXCEPT !.singletons = (interface :> r.inst) @@ @], r.inst)
            ELSE r
    ELSE Return(Note(self, "hit", interface, "None", self.singletons[interface]),
                self.singletons[interface])

\* get_instance, lifestyle == LifeStyle.Singleton
get_singleton(self, interface, b, depth) ==
    IF interface \notin DOMAIN self.singletons
    THEN LET r == create_instance(self, interface, b.implementation, b.params, b.factory, depth) IN
         IF r.ok
         THEN Return([r.self EXCEPT !.singletons = (interface :> r.inst) @@ @], r.inst)
         ELSE r
    ELSE Return(Note(self, "hit", interface, "None", self.singletons[interface]),
                self.singletons[interface])

\* faulty variant: the scoped store is written but never consulted
get_scoped_rebuild(self, interface, b, depth) ==
    IF ~self.scope_active
    THEN Raise(self, "ScopeInactive", "None", "None")
    ELSE LET r == create_instance(self, interface, b.implementation, b.params, b.factory, depth) IN
         IF r.ok
         THEN Return([r.self EXCEPT !.scoped_instances = (interface :> r.inst) @@ @], r.inst)
         ELSE r

\* faulty variant: the scope flag is not checked
get_scoped_anywhere(self, interface, b, depth) ==
    IF interface \notin DOMAIN self.scoped_instances
    THEN LET r == create_instance(self, interface, b.implementation, b.params, b.factory, depth) IN
         IF r.ok
         THEN Return([r.self EXCEPT !.scoped_instances = (interface :> r.inst) @@ @], r.inst)
         ELSE r
    ELSE Return(Note(self, "hit", interface, "None", self.scoped_instances[interface]),
                self.scoped_instances[interface])

\* get_instance, lifestyle == LifeStyle.Scoped
get_scoped(self, interface, b, depth) ==
    IF ~self.scope_active
    THEN Raise(self, "ScopeInactive", "None", "None")
    ELSE IF interface \notin DOMAIN self.scoped_instances
    THEN LET r == create_instance(self, interface, b.implementation, b.params, b.factory, depth) IN
         IF r.ok
         THEN Return([r.self EXCEPT !.scoped_instances = (interface :> r.inst) @@ @], r.inst)
         ELSE r
    ELSE Return(Note(self, "hit", interface, "None", self.scoped_instances[interface]),
                self.scoped_instances[interface])

\* faulty variant: a PerRequest instance is kept and served again, like a singleton
get_per_request_cached(self, interface, b, depth) ==
    IF interface \notin DOMAIN self.singletons
    THEN LET r == create_instance(self, interface, b.implementation, b.params, b.factory, depth) IN
         IF r.ok
         THEN Return([r.self EXCEPT !.singletons = (interface :> r.inst) @@ @], r.inst)
         ELSE r
    ELSE Return(Note(self, "hit", interface, "None", self.singletons[interface]),
                self.singletons[interface])

\* faulty variant: a PerRequest build that fails is tried again
get_per_request_retry(self, interface, b, depth) ==
    LET r == create_instance(self, interface, b.implementation, b.params, b.factory, depth) IN
    IF r.ok THEN r ELSE get_instance(r.self, interface, depth + 1)

\* get_instance, any other lifestyle (PerRequest)
get_per_request(self, interface, b, depth) ==
    create_instance(self, interface, b.implementation, b.params, b.factory, depth)

\* faulty variant: no registration check: the lookup in the dictionary raises KeyError
not_registered_keyerror(self, interface) ==
    Raise(self, "KeyError", "None", "None")

\* get_instance, the interface is not in self._registrations
not_registered(self, interface) ==
    Raise(self, "UnregisteredContract", "None", "None")

\* Injector.get_instance; a call deeper than the interpreter allows raises RecursionError
get_instance(self, interface, depth) ==
    IF depth > MaxDepth
    THEN Raise(self, "RecursionError", "None", "None")
    ELSE LET s0 == Note(self, "request", interface, "None", 0) IN
         IF interface \notin DOMAIN s0.registrations
         THEN not_registered(s0, interface)
         ELSE LET b == s0.registrations[interface] IN
              IF b.lifestyle = "Singleton" THEN get_singleton(s0, interface, b, depth)
              ELSE IF b.lifestyle = "Scoped" THEN get_scoped(s0, interface, b, depth)
              ELSE get_per_request(s0, interface, b, depth)

\* faulty variant: register keeps the binding a contract already has (setdefault)
register_first_wins(self, interface, b) ==
    IF interface \in DOMAIN self.registrations
    THEN self
    ELSE [self EXCEPT !.registrations = (interface :> b) @@ @]

\* faulty variant: register refuses a binding whose implementation has a parameter
\* that could not be resolved at the moment of the call
register_checked(self, interface, b) ==
    IF /\ b.factory = "None"
       /\ \E k \in DOMAIN Signature(b.implementation) :
             LET p == Signature(b.implementation)[k] IN
             /\ ~skipped(p)
             /\ p.name \notin DOMAIN b.params
             /\ p.annotation \notin DOMAIN self.registrations
    THEN self
    ELSE [self EXCEPT !.registrations = (interface :> b) @@ @]

\* faulty variant: register drops the instance the singleton store holds for the contract
register_evicting(self, interface, b) ==
    [self EXCEPT !.registrations = (interface :> b) @@ @,
                 !.singletons = [c \in DOMAIN @ \ {interface} |-> @[c]]]

\* Injector.register
register(self, interface, b) ==
    [self EXCEPT !.registrations = (interface :> b) @@ @]

(* ---------------------------------------------------------------- host *)
Store(self) ==
    /\ registrations' = self.registrations
    /\ singletons' = self.singletons
    /\ scoped_instances' = self.scoped_instances
    /\ scope_active' = self.scope_active
    /\ heap' = self.heap

\* the host's last operation: what it called, what came back (an object, or an
\* error with the parameter and implementation it names), whether the object had
\* been returned for that contract before, and what the calls inside did
Op(op, interface, r, seen) ==
    [op |-> op, interface |-> interface, ok |-> r.ok, inst |-> r.inst, err |-> r.err,
     name |-> r.name, impl |-> r.impl, seen |-> seen, trace |-> r.self.trace]

\* The history of the successful get_instance calls of the host, one record for
\* each (contract, object) pair that a call has returned:
\*   lifestyles : the lifestyles the contract's binding had at those calls,
\* and, of the calls made under a Scoped binding,
\*   levels : the nesting levels of the still open brackets that one of them was made in,
\*   cur    : one of them was made directly in the innermost open bracket, that is
\*            after the latest bracket entry, no bracket having exited since,
\*   exited : a bracket that one of them was made in has exited,
\*   prior  : ... and a bracket has been entered after that exit
NoRecord(interface, obj) ==
    [interface |-> interface, inst |-> obj, lifestyles |-> {}, levels |-> {},
     cur |-> FALSE, exited |-> FALSE, prior |-> FALSE]

RecordOf(rs, interface, obj) ==
    IF \E r \in rs : r.interface = interface /\ r.inst = obj
    THEN CHOOSE r \in rs : r.interface = interface /\ r.inst = obj
    ELSE NoRecord(interface, obj)

Seen(rs, interface, obj) ==
    \E r \in rs : r.interface = interface /\ r.inst = obj

\* the history after get_instance(interface) returned obj
AtReturn(rs, interface, obj) ==
    LET old    == RecordOf(rs, interface, obj)
        l      == registrations[interface].lifestyle
        scoped == l = "Scoped"
    IN (rs \ {old}) \cup
       {[old EXCEPT !.lifestyles = @ \cup {l},
                    !.levels = IF scoped THEN @ \cup 1..brackets ELSE @,
                    !.cur = @ \/ scoped]}

\* the history as a bracket is entered
AtEnter(rs) ==
    {[r EXCEPT !.cur = FALSE, !.prior = @ \/ r.exited] : r \in rs}

\* the history as the bracket at nesting level d exits
AtExit(rs, d) ==
    {[r EXCEPT !.levels = @ \ {d}, !.cur = FALSE, !.exited = @ \/ d \in r.levels] : r \in rs}

\* the threads of a multi-threaded host
Threads == {"t1", "t2"}

\* a thread's frame of get_instance: where it stands (idle, or before the check
\* of line 33, the build or the store of line 34, the return of line 35), the
\* interface it was called with, the instance it has built, and the calls it
\* has made
Frame(pc, interface, inst, n) ==
    [pc |-> pc, interface |-> interface, inst |-> inst, n |-> n]

\* the history of the threads' calls: how often each contract's implementation or
\* factory was invoked, the instances the calls returned per contract, and the
\* contracts for which a call found no entry while another call, having found
\* none either, had not yet stored its instance
NoCalls == [invocations |-> << >>, results |-> {}, overlap |-> {}]

\* a host with one thread of control
SingleThreaded ==
    /\ threads = [t \in Threads |-> Frame("idle", "None", 0, 0)]
    /\ calls = NoCalls

\* a host that has no Keyboard
NoKeyboard ==
    /\ kb = "None"
    /\ kb_last = "None"

\* a host that has no Person
NoPerson ==
    /\ person = "None"
    /\ person_last = "None"

\* injector = Injector(), in a host that has allocated one object of its own
NewInjector ==
    /\ registrations = << >>
    /\ singletons = << >>
    /\ scoped_instances = << >>
    /\ scope_active = FALSE
    /\ heap = << HostObject >>
    /\ brackets = 0
    /\ raised = FALSE
    /\ nregs = 0
    /\ latest = << >>
    /\ returned = {}
    /\ last = Op("init", "None", Return(Self, 0), FALSE)

Init ==
    /\ SingleThreaded
    /\ NoKeyboard
    /\ NoPerson
    /\ NewInjector

\* injector.register(interface, implementation, lifestyle, params, factory)
Register(interface, b) ==
    /\ ~raised
    /\ nregs < MaxRegs
    /\ Store(register(Self, interface, b))
    /\ nregs' = nregs + 1
    /\ latest' = (interface :> b) @@ latest
    /\ last' = Op("register", interface, Return(Self, 0), FALSE)
    /\ UNCHANGED << brackets, raised, returned, thread_vars, keyboard_vars, person_vars >>

\* injector.get_instance(interface); a failure inside a bracket is caught there
\* or propagates out of it
GetInstance(interface) ==
    /\ ~raised
    /\ LET r == get_instance(Self, interface, 1) IN
       /\ Len(r.self.heap) <= MaxObjs
       /\ Store(r.self)
       /\ last' = Op("get_instance", interface, r, r.ok /\ Seen(returned, interface, r.inst))
       /\ returned' = IF r.ok THEN AtReturn(returned, interface, r.inst) ELSE returned
       /\ raised' \in IF ~r.ok /\ brackets > 0 THEN BOOLEAN ELSE {FALSE}
    /\ UNCHANGED << brackets, nregs, latest, thread_vars, keyboard_vars, person_vars >>

\* `with injector.create_scope() as scope:` is entered
ScopeEnter ==
    /\ ~raised
    /\ brackets < MaxNesting
    /\ Store(enter_scope(Self))
    /\ brackets' = brackets + 1
    /\ returned' = AtEnter(returned)
    /\ last' = Op("enter", "None", Return(Self, 0), FALSE)
    /\ UNCHANGED << raised, nregs, latest, thread_vars, keyboard_vars, person_vars >>

\* the innermost bracket is left, by its body ending or by the exception passing
\* through it; the exception is then caught at that level or goes on outwards
ScopeExit ==
    /\ brackets > 0
    /\ Store(exit_scope(Self))
    /\ brackets' = brackets - 1
    /\ returned' = AtExit(returned, brackets)
    /\ raised' \in IF raised /\ brackets > 1 THEN BOOLEAN ELSE {FALSE}
    /\ last' = Op(IF raised THEN "exit_error" ELSE "exit", "None", Return(Self, 0), FALSE)
    /\ UNCHANGED << nregs, latest, thread_vars, keyboard_vars, person_vars >>

Next ==
    \/ \E interface \in Interfaces : \E b \in RegisterArgs(interface) : Register(interface, b)
    \/ \E interface \in Interfaces : GetInstance(interface)
    \/ ScopeEnter
    \/ ScopeExit

Spec == Init /\ [][Next]_vars

(* --------------------------------------------------- the wired host *)
\* A host that, like main(), first runs a configure() of its own and then only
\* requests instances, inside and outside create_scope brackets.

\* the contracts this host requests: the interfaces, and the declared types of
\* ParametrizedClass's parameters, which a register call can name as contracts
Contracts == Interfaces \cup {"str", "int"}

\* register(interface, implementation, lifestyle)
Impl(implementation, lifestyle) == Binding(implementation, lifestyle, NoParams, "None")

\* configure() of main and its variations: Class3_Debug with the contract of its dep
WiringsDep ==
    { ("Interface1" :> Impl("Class1_Debug", ll[1])) @@ ("Interface3" :> Impl("Class3_Debug", ll[2])) :
         ll \in { << "Singleton", "Scoped" >>, << "Singleton", "PerRequest" >>,
                  << "Scoped", "Singleton" >>, << "Scoped", "Scoped" >>,
                  << "PerRequest", "Scoped" >> } }
    \cup
    { ("Interface1" :> Impl("Class1_Debug", ll[1]))
         @@ ("Interface3" :> Binding("Class3_Debug", ll[2], ("dep" :> 9), "None")) :
         ll \in { << "Singleton", "PerRequest" >>, << "Singleton", "Singleton" >>,
                  << "Scoped", "Scoped" >> } }

\* ParametrizedClass without literals: its parameters are resolved by their
\* declared types str and int; int is bound, or bound to a factory that raises, or
\* left unregistered
WiringsParams ==
    LET int_args == { Impl("Class1_Debug", "PerRequest"), Impl("Class1_Debug", "Scoped"),
                      Binding("None", "Singleton", NoParams, "failing") }
        two == { ("InterfaceWithParams" :> Impl("ParametrizedClass", ll[1]))
                    @@ ("str" :> Impl("Class1_Debug", ll[2])) :
                    ll \in { << "PerRequest", "Singleton" >>, << "Singleton", "Scoped" >>,
                             << "PerRequest", "PerRequest" >> } }
    IN two \cup { ("int" :> b) @@ w : b \in int_args, w \in two }

\* a factory registered together with an implementation and params
WiringsFactory ==
    { ("Interface1" :> Impl("Class1_Debug", "Singleton")) @@ ("InterfaceWithFactory" :> b) :
         b \in { Binding("Class3_Debug", l, NoParams, "fresh") : l \in LifeStyle }
               \cup { Binding("ParametrizedClass", "Singleton", ("level" :> 5), "fresh") } }

\* a factory that raises; a register call that names neither implementation nor factory
WiringsFailing ==
    { ("Interface1" :> Binding("None", l, NoParams, f))
         @@ ("Interface3" :> Impl("Class3_Debug", "Singleton")) :
         l \in LifeStyle, f \in {"failing", "None"} }

\* dependency cycles, and the longest chain without one
WiringsCycle ==
    { ("Interface1" :> Impl("Class3_Debug", l)) : l \in LifeStyle }
    \cup
    { ("Interface1" :> Binding("ParametrizedClass", ll[1], ("level" :> 5), "None"))
         @@ ("str" :> Impl("Class3_Debug", ll[2])) :
         ll \in { << "Singleton", "Singleton" >>, << "PerRequest", "Scoped" >>,
                  << "Scoped", "PerRequest" >> } }
    \cup
    { ("int" :> Impl("ParametrizedClass", "PerRequest")),
      ("int" :> Impl("ParametrizedClass", "PerRequest"))
         @@ ("str" :> Impl("Class1_Debug", "Singleton")),
      ("Interface3" :> Impl("Class3_Debug", "PerRequest"))
         @@ ("Interface1" :> Binding("ParametrizedClass", "Scoped", ("level" :> 5), "None"))
         @@ ("str" :> Impl("Class1_Debug", "Singleton")) }

Wirings == WiringsDep \cup WiringsParams \cup WiringsFactory \cup WiringsFailing \cup WiringsCycle

\* injector = Injector(); configure(injector)
InitWired ==
    /\ SingleThreaded
    /\ NoKeyboard
    /\ NoPerson
    /\ registrations \in Wirings
    /\ singletons = << >>
    /\ scoped_instances = << >>
    /\ scope_active = FALSE
    /\ heap = << >>
    /\ brackets = 0
    /\ raised = FALSE
    /\ nregs = 0
    /\ latest = registrations
    /\ returned = {}
    /\ last = Op("init", "None", Return(Self, 0), FALSE)

NextWired ==
    \/ \E interface \in Contracts : GetInstance(interface)
    \/ ScopeEnter
    \/ ScopeExit

SpecWired == InitWired /\ [][NextWired]_vars

(* ------------------------------------------------- the rewiring host *)
\* A host that registers bindings which close dependency cycles, also over
\* contracts that were resolved under an earlier binding.
CycleArgs(interface) ==
    CASE interface = "Interface1" ->
           { Impl("Class1_Debug", "Singleton"), Impl("Class1_Debug", "Scoped"),
             Binding("ParametrizedClass", "Singleton", ("level" :> 5), "None") }
           \cup { Impl("Class3_Debug", l) : l \in LifeStyle }
      [] interface = "str" ->
           { Impl("Class1_Debug", "Singleton"), Impl("Class3_Debug", "Singleton") }
      [] interface = "int" ->
           { Impl("ParametrizedClass", "PerRequest") }
      [] OTHER -> {}

NextCycle ==
    \/ \E interface \in Contracts : \E b \in CycleArgs(interface) : Register(interface, b)
    \/ \E interface \in Contracts : GetInstance(interface)
    \/ ScopeEnter
    \/ ScopeExit

SpecCycle == Init /\ [][NextCycle]_vars

(* ------------------------------------------------ the re-entrant host *)
\* A host whose factories may themselves run a create_scope bracket on the
\* Injector while it is building.
ScopingArgs(interface) ==
    CASE interface = "InterfaceWithFactory" ->
           { Binding("None", l, NoParams, "scoping") : l \in LifeStyle }
           \cup { Binding("None", "Scoped", NoParams, "fresh") }
      [] interface = "Interface1" ->
           { Binding("None", "PerRequest", NoParams, "scoping"),
             Binding("None", "Singleton", NoParams, "scoping"),
             Impl("Class1_Debug", "Scoped") }
      [] interface = "Interface3" ->
           { Impl("Class3_Debug", "Scoped"), Impl("Class3_Debug", "Singleton") }
      [] OTHER -> {}

NextScoping ==
    \/ \E interface \in Interfaces : \E b \in ScopingArgs(interface) : Register(interface, b)
    \/ \E interface \in Interfaces : GetInstance(interface)
    \/ ScopeEnter
    \/ ScopeExit

SpecScoping == Init /\ [][NextScoping]_vars

(* -------------------------------------------- the multi-threaded host *)
\* Two threads of one host call get_instance on one Injector for contracts bound
\* as Singleton.  The Injector has no lock: a thread can be suspended between the
\* check of line 33, the call of _create_instance and the store of line 34, and
\* the read of line 35.  The bindings have no dependencies, so a build is one
\* call of the factory or the constructor.
WiringThreads ==
    ("Interface1" :> Impl("Class1_Debug", "Singleton"))
       @@ ("InterfaceWithFactory" :> Binding("None", "Singleton", NoParams, "fresh"))
       @@ ("InterfaceWithParams" :> Binding("None", "Singleton", NoParams, "shared"))

InitThreads ==
    /\ SingleThreaded
    /\ NoKeyboard
    /\ NoPerson
    /\ registrations = WiringThreads
    /\ singletons = << >>
    /\ scoped_instances = << >>
    /\ scope_active = FALSE
    /\ heap = << HostObject >>
    /\ brackets = 0
    /\ raised = FALSE
    /\ nregs = 0
    /\ latest = registrations
    /\ returned = {}
    /\ last = Op("init", "None", Return(Self, 0), FALSE)

\* faulty variant: the singleton store is not consulted
singleton_missing_always(self, interface) ==
    TRUE

\* `if interface not in self._singletons`
singleton_missing(self, interface) ==
    interface \notin DOMAIN self.singletons

\* the other threads that found no entry for the interface and have not stored yet
Building(t, interface) ==
    {u \in Threads \ {t} :
        threads[u].interface = interface /\ threads[u].pc \in {"build", "store"}}

Count(f, c) == IF c \in DOMAIN f THEN f[c] ELSE 0

Host == << scoped_instances, scope_active, brackets, raised, nregs, latest, returned, last,
           keyboard_vars, person_vars >>

\* a thread calls get_instance(interface): lines 27-32
ThreadCall(t, interface) ==
    /\ threads[t].pc = "idle"
    /\ threads[t].n < MaxCalls
    /\ interface \in DOMAIN registrations
    /\ registrations[interface].lifestyle = "Singleton"
    /\ threads' = [threads EXCEPT ![t] = Frame("check", interface, 0, @.n + 1)]
    /\ UNCHANGED << registrations, singletons, heap, calls, Host >>

\* line 33
ThreadCheck(t) ==
    LET c == threads[t].interface IN
    /\ threads[t].pc = "check"
    /\ IF singleton_missing(Self, c)
       THEN /\ threads' = [threads EXCEPT ![t].pc = "build"]
            /\ calls' = [calls EXCEPT !.overlap =
                             IF Building(t, c) # {} THEN @ \cup {c} ELSE @]
       ELSE /\ threads' = [threads EXCEPT ![t].pc = "return"]
            /\ UNCHANGED calls
    /\ UNCHANGED << registrations, singletons, heap, Host >>

\* line 34, the call of _create_instance
ThreadBuild(t) ==
    LET c == threads[t].interface
        b == registrations[c]
        r == create_instance(Self, c, b.implementation, b.params, b.factory, 1)
    IN /\ threads[t].pc = "build"
       /\ r.ok
       /\ Len(r.self.heap) <= MaxObjs
       /\ heap' = r.self.heap
       /\ threads' = [threads EXCEPT ![t].pc = "store", ![t].inst = r.inst]
       /\ calls' = [calls EXCEPT !.invocations = (c :> Count(@, c) + 1) @@ @]
       /\ UNCHANGED << registrations, singletons, Host >>

\* line 34, the assignment to self._singletons[interface]
ThreadStore(t) ==
    /\ threads[t].pc = "store"
    /\ singletons' = (threads[t].interface :> threads[t].inst) @@ singletons
    /\ threads' = [threads EXCEPT ![t].pc = "return"]
    /\ UNCHANGED << registrations, heap, calls, Host >>

\* line 35
ThreadReturn(t) ==
    LET c == threads[t].interface IN
    /\ threads[t].pc = "return"
    /\ threads' = [threads EXCEPT ![t] = Frame("idle", "None", 0, @.n)]
    /\ calls' = [calls EXCEPT !.results = @ \cup {<< c, singletons[c] >>}]
    /\ UNCHANGED << registrations, singletons, heap, Host >>

NextThreads ==
    \/ \E t \in Threads : \E interface \in Interfaces : ThreadCall(t, interface)
    \/ \E t \in Threads : ThreadCheck(t)
    \/ \E t \in Threads : ThreadBuild(t)
    \/ \E t \in Threads : ThreadStore(t)
    \/ \E t \in Threads : ThreadReturn(t)

SpecThreads == InitThreads /\ [][NextThreads]_vars

(* ------------------------------------------------------- lab6: Keyboard *)
\* The Keyboard of lab6 with its history and redo stack, driven by a host that
\* binds keys to command objects, presses keys, and calls undo and redo.

\* the keys the host presses; it binds commands to "a" and "b" only
Keys == {"a", "b", "d"}

\* a command object: its class and, for a PrintCommand, its char and the list it
\* writes to: the keyboard's text_output or a list of the host's own
Command(cls, char, output) == [cls |-> cls, char |-> char, output |-> output]

\* the command objects, by identity: 1..5 are created by the host, 6..9 by
\* load_state through _create_command_by_name
Commands ==
    << Command("PrintCommand", "a", "text_output"),
       Command("PrintCommand", "b", "text_output"),
       Command("PrintCommand", "a", "lines"),
       Command("VolumeUpCommand", "None", "None"),
       Command("MediaPlayerCommand", "None", "None"),
       Command("PrintCommand", "*", "text_output"),
       Command("VolumeUpCommand", "None", "None"),
       Command("VolumeDownCommand", "None", "None"),
       Command("MediaPlayerCommand", "None", "None") >>

\* the commands the host binds to a key
AssociateArgs(key) ==
    CASE key = "a" -> {1, 3}
      [] key = "b" -> {2, 4, 5}
      [] OTHER -> {}

\* keyboard_state.json as an earlier run left it: absent, or written by
\* save_state, also for a command class that this program does not know
SavedFiles ==
    { << >>,
      ("a" :> "PrintCommand") @@ ("b" :> "MacroCommand"),
      ("b" :> "MediaPlayerCommand") }

\* Keyboard._create_command_by_name; 0 stands for None
create_command_by_name(name) ==
    CASE name = "VolumeUpCommand" -> 7
      [] name = "VolumeDownCommand" -> 8
      [] name = "MediaPlayerCommand" -> 9
      [] name = "PrintCommand" -> 6
      [] OTHER -> 0

\* Keyboard.__init__ before load_state, with the file the KeyboardStateSaver finds;
\* lines is the host's own list and running the MediaPlayerCommands whose
\* running attribute is True
NewKeyboard(file) ==
    [associations |-> << >>, commands |-> << >>, history |-> << >>,
     redo_stack |-> << >>, text_output |-> << >>,
     lines |-> << >>, running |-> {}, file |-> file]

\* Keyboard.load_state
load_state(self) ==
    LET known == {key \in DOMAIN self.file : create_command_by_name(self.file[key]) # 0}
    IN [self EXCEPT !.commands =
           [key \in known |-> create_command_by_name(self.file[key])]]

\* Keyboard.save_state
save_state(self) ==
    [self EXCEPT !.file = [key \in DOMAIN self.commands |-> Commands[self.commands[key]].cls]]

\* Command.execute: PrintCommand appends its char to its list, MediaPlayerCommand
\* sets running, the volume commands only print (print and write_to_output do
\* not touch the keyboard)
execute(self, c) ==
    CASE Commands[c].cls = "PrintCommand" ->
           IF Commands[c].output = "text_output"
           THEN [self EXCEPT !.text_output = Append(@, Commands[c].char)]
           ELSE [self EXCEPT !.lines = Append(@, Commands[c].char)]
      [] Commands[c].cls = "MediaPlayerCommand" ->
           [self EXCEPT !.running = @ \cup {c}]
      [] OTHER -> self

Pop(q) == SubSeq(q, 1, Len(q) - 1)

\* faulty variant: PrintCommand.undo removes the first occurrence of its char
command_undo_remove(self, c) ==
    LET RemoveFirst(q) ==
           LET K == {k \in DOMAIN q : q[k] = Commands[c].char} IN
           IF K = {} THEN q
           ELSE LET k == CHOOSE i \in K : \A j \in K : i <= j
                IN SubSeq(q, 1, k - 1) \o SubSeq(q, k + 1, Len(q))
    IN CASE Commands[c].cls = "PrintCommand" ->
              IF Commands[c].output = "text_output"
              THEN [self EXCEPT !.text_output = RemoveFirst(@)]
              ELSE [self EXCEPT !.lines = RemoveFirst(@)]
         [] OTHER -> self

\* Command.undo: PrintCommand pops the last element of its list, if it has one;
\* the other commands only print
command_undo(self, c) ==
    CASE Commands[c].cls = "PrintCommand" ->
           IF Commands[c].output = "text_output"
           THEN [self EXCEPT !.text_output = IF @ # << >> THEN Pop(@) ELSE @]
           ELSE [self EXCEPT !.lines = IF @ # << >> THEN Pop(@) ELSE @]
      [] OTHER -> self

\* Keyboard.associate_key
associate_key(self, key, c) ==
    save_state([self EXCEPT !.commands = (key :> c) @@ @,
                            !.associations = (key :> Commands[c].cls) @@ @])

\* Keyboard.press_key
press_key(self, key) ==
    IF key \in DOMAIN self.commands
    THEN [execute(self, self.commands[key]) EXCEPT
             !.history = Append(@, self.commands[key]),
             !.redo_stack = << >>]
    ELSE self

\* faulty variant: undo does not put the command on the redo stack
undo_discard(self) ==
    IF self.history # << >>
    THEN command_undo([self EXCEPT !.history = Pop(@)], self.history[Len(self.history)])
    ELSE self

\* Keyboard.undo
undo(self) ==
    IF self.history # << >>
    THEN LET command == self.history[Len(self.history)]
             s1 == [self EXCEPT !.history = Pop(@)]
         IN [command_undo(s1, command) EXCEPT !.redo_stack = Append(@, command)]
    ELSE self

\* Keyboard.redo
redo(self) ==
    IF self.redo_stack # << >>
    THEN LET command == self.redo_stack[Len(self.redo_stack)]
             s1 == [self EXCEPT !.redo_stack = Pop(@)]
         IN [execute(s1, command) EXCEPT !.history = Append(@, command)]
    ELSE self

\* the host's last call on the keyboard
KbCall(op, key) == [op |-> op, key |-> key]

\* kb = Keyboard()
InitKeyboard ==
    /\ SingleThreaded
    /\ NoPerson
    /\ NewInjector
    /\ kb \in {load_state(NewKeyboard(file)) : file \in SavedFiles}
    /\ kb_last = KbCall("init", "None")

Injector == << injector_vars, thread_vars, person_vars >>

\* kb.associate_key(key, command)
AssociateKey(key, c) ==
    /\ kb' = associate_key(kb, key, c)
    /\ kb_last' = KbCall("associate_key", key)
    /\ UNCHANGED Injector

\* kb.press_key(key)
PressKey(key) ==
    /\ Len(kb.history) < MaxHistory
    /\ kb' = press_key(kb, key)
    /\ kb_last' = KbCall("press_key", key)
    /\ UNCHANGED Injector

\* kb.undo()
Undo ==
    /\ kb' = undo(kb)
    /\ kb_last' = KbCall("undo", "None")
    /\ UNCHANGED Injector

\* kb.redo()
Redo ==
    /\ kb' = redo(kb)
    /\ kb_last' = KbCall("redo", "None")
    /\ UNCHANGED Injector

NextKeyboard ==
    \/ \E key \in Keys : \E c \in AssociateArgs(key) : AssociateKey(key, c)
    \/ \E key \in Keys : PressKey(key)
    \/ Undo
    \/ Redo

SpecKeyboard == InitKeyboard /\ [][NextKeyboard]_vars

(* --------------------------------------------------------- lab4: Person *)
\* The Person of lab4 with its two listener lists, driven by a host that adds
\* and removes listeners and assigns to the properties name and age.

\* the changing-listener objects of the host, by identity: the two validators of
\* the program, a listener that refuses every change, and one whose
\* on_property_changing has no return statement
ChangingListeners == << "AgeValidator", "NameValidator", "Lock", "Silent" >>

\* the changed-listener objects of the host, by identity: two PrintListeners
ChangeListeners == << "PrintListener", "PrintListener" >>

\* the values the host assigns
Names == {"Alice", "Bob", "   "}
Ages == {30, 40, -5}

\* str.strip, on the names of the host
Strip(value) == IF value = "   " THEN "" ELSE value

\* listener.on_property_changing(obj, property_name, old_value, new_value)
on_property_changing(listener, property_name, old_value, new_value) ==
    CASE ChangingListeners[listener] = "AgeValidator" ->
           IF property_name = "age" /\ ~(0 <= new_value /\ new_value <= 120)
           THEN "False" ELSE "True"
      [] ChangingListeners[listener] = "NameValidator" ->
           IF property_name = "name" /\ Strip(new_value) = ""
           THEN "False" ELSE "True"
      [] ChangingListeners[listener] = "Lock" -> "False"
      [] OTHER -> "None"

\* Person.__init__; log is what the calls of the last operation did
Person(name, age) ==
    [_name |-> name, _age |-> age, _change_listeners |-> << >>,
     _changing_listeners |-> << >>, log |-> << >>]

\* the value the person holds for a property
Stored(self, property_name) ==
    IF property_name = "name" THEN self._name ELSE self._age

\* a call to a listener, with what it returned and the value the person held
\* for the property when it was called; the assignment to the attribute
Called(self, ev, listener, property_name, ret) ==
    [self EXCEPT !.log = Append(@, [ev |-> ev, listener |-> listener,
                                    property |-> property_name, ret |-> ret,
                                    held |-> Stored(self, property_name)])]

\* `listener in list`
Registered(q, listener) == \E i \in DOMAIN q : q[i] = listener

\* list.remove: the first occurrence goes
Remove(q, x) ==
    LET k == CHOOSE i \in DOMAIN q : q[i] = x /\ \A j \in 1..(i - 1) : q[j] # x
    IN SubSeq(q, 1, k - 1) \o SubSeq(q, k + 1, Len(q))

\* faulty variant: every changing-listener is consulted, the answers are combined after
RECURSIVE notify_property_changing_all(_, _, _, _, _)
notify_property_changing_all(self, property_name, old_value, new_value, i) ==
    IF i > Len(self._changing_listeners)
    THEN [self |-> self, ok |-> TRUE]
    ELSE LET listener == self._changing_listeners[i]
             ret == on_property_changing(listener, property_name, old_value, new_value)
             r == notify_property_changing_all(
                     Called(self, "changing", listener, property_name, ret),
                     property_name, old_value, new_value, i + 1)
         IN [r EXCEPT !.ok = @ /\ ret = "True"]

\* Person._notify_property_changing, from the i-th listener on
RECURSIVE notify_property_changing(_, _, _, _, _)
notify_property_changing(self, property_name, old_value, new_value, i) ==
    IF i > Len(self._changing_listeners)
    THEN [self |-> self, ok |-> TRUE]
    ELSE LET listener == self._changing_listeners[i]
             ret == on_property_changing(listener, property_name, old_value, new_value)
             s1 == Called(self, "changing", listener, property_name, ret)
         IN IF ret # "True"
            THEN [self |-> s1, ok |-> FALSE]
            ELSE notify_property_changing(s1, property_name, old_value, new_value, i + 1)

\* Person._notify_property_changed, from the i-th listener on
RECURSIVE notify_property_changed(_, _, _)
notify_property_changed(self, property_name, i) ==
    IF i > Len(self._change_listeners)
    THEN self
    ELSE notify_property_changed(
            Called(self, "changed", self._change_listeners[i], property_name, "None"),
            property_name, i + 1)

\* Person.name, the setter
name_setter(self, value) ==
    LET r == notify_property_changing(self, "name", self._name, value, 1) IN
    IF r.ok
    THEN notify_property_changed(
            Called([r.self EXCEPT !._name = value], "set", 0, "name", "None"), "name", 1)
    ELSE r.self

\* Person.age, the setter
age_setter(self, value) ==
    LET r == notify_property_changing(self, "age", self._age, value, 1) IN
    IF r.ok
    THEN notify_property_changed(
            Called([r.self EXCEPT !._age = value], "set", 0, "age", "None"), "age", 1)
    ELSE r.self

\* the host's last operation on the person: what it called, with which listener
\* or value, what the property held before, and whether the call raised
PersonCall(op, arg, property_name, before, raised_error) ==
    [op |-> op, arg |-> arg, property |-> property_name, before |-> before,
     raised |-> raised_error]

\* p = Person("Alice", 30)
InitPerson ==
    /\ SingleThreaded
    /\ NoKeyboard
    /\ NewInjector
    /\ person = Person("Alice", 30)
    /\ person_last = PersonCall("init", 0, "None", 0, FALSE)

NotPerson == << injector_vars, thread_vars, keyboard_vars >>

Fresh == [person EXCEPT !.log = << >>]

\* p.add_property_changing_listener(listener)
AddChangingListener(listener) ==
    /\ Len(person._changing_listeners) < MaxListeners
    /\ person' = [Fresh EXCEPT !._changing_listeners = Append(@, listener)]
    /\ person_last' = PersonCall("add_changing", listener, "None", 0, FALSE)
    /\ UNCHANGED NotPerson

\* p.remove_property_changing_listener(listener); list.remove raises ValueError
\* for a listener that is not in the list
RemoveChangingListener(listener) ==
    /\ person' = IF Registered(person._changing_listeners, listener)
                 THEN [Fresh EXCEPT !._changing_listeners = Remove(@, listener)]
                 ELSE Fresh
    /\ person_last' = PersonCall("remove_changing", listener, "None", 0,
                                 ~Registered(person._changing_listeners, listener))
    /\ UNCHANGED NotPerson

\* p.add_property_changed_listener(listener)
AddChangedListener(listener) ==
    /\ Len(person._change_listeners) < MaxListeners
    /\ person' = [Fresh EXCEPT !._change_listeners = Append(@, listener)]
    /\ person_last' = PersonCall("add_changed", listener, "None", 0, FALSE)
    /\ UNCHANGED NotPerson

\* p.remove_property_changed_listener(listener)
RemoveChangedListener(listener) ==
    /\ person' = IF Registered(person._change_listeners, listener)
                 THEN [Fresh EXCEPT !._change_listeners = Remove(@, listener)]
                 ELSE Fresh
    /\ person_last' = PersonCall("remove_changed", listener, "None", 0,
                                 ~Registered(person._change_listeners, listener))
    /\ UNCHANGED NotPerson

\* p.name = value
AssignName(value) ==
    /\ person' = name_setter(Fresh, value)
    /\ person_last' = PersonCall("assign", value, "name", person._name, FALSE)
    /\ UNCHANGED NotPerson

\* p.age = value
AssignAge(value) ==
    /\ person' = age_setter(Fresh, value)
    /\ person_last' = PersonCall("assign", value, "age", person._age, FALSE)
    /\ UNCHANGED NotPerson

NextPerson ==
    \/ \E listener \in DOMAIN ChangingListeners : AddChangingListener(listener)
    \/ \E listener \in DOMAIN ChangingListeners : RemoveChangingListener(listener)
    \/ \E listener \in DOMAIN ChangeListeners : AddChangedListener(listener)
    \/ \E listener \in DOMAIN ChangeListeners : RemoveChangedListener(listener)
    \/ \E value \in Names : AssignName(value)
    \/ \E value \in Ages : AssignAge(value)

SpecPerson == InitPerson /\ [][NextPerson]_vars

(* =============================================================== claims *)
\* what the formulas below read off the state
LastGet == last.op = "get_instance"
LastGetOk == LastGet /\ last.ok
\* the binding the last get_instance found for its contract (get_instance does
\* not change the registry)
LastBinding == registrations[last.interface]
LastLifestyle ==
    IF last.interface \in DOMAIN registrations THEN LastBinding.lifestyle ELSE "None"

\* the events of the last operation
Events == {last.trace[k] : k \in DOMAIN last.trace}
Builds == {e \in Events : e.ev \in {"construct", "factory"}}

\* object o is what binding b builds: the object of b's factory, or an instance of
\* b's implementation whose arguments are b's literals and, for the other
\* parameters, objects obtained from the container
Accords(o, b) ==
    IF b.factory = "shared" THEN o = SharedObj
    ELSE IF b.factory = "fresh"
    THEN o # SharedObj /\ heap[o].cls = "FactoryClass" /\ heap[o].kwargs = << >>
    ELSE /\ heap[o].cls = b.implementation
         /\ \A k \in DOMAIN Signature(b.implementation) :
              LET p == Signature(b.implementation)[k] IN
              ~skipped(p) =>
                 /\ p.name \in DOMAIN heap[o].kwargs
                 /\ IF p.name \in DOMAIN b.params
                    THEN heap[o].kwargs[p.name] = Lit(b.params[p.name])
                    ELSE heap[o].kwargs[p.name].ref

\* the parameters of b's implementation that have no entry in b's params and whose
\* declared type is not a registered contract, as positions in the signature
Unresolvable(b) ==
    {k \in DOMAIN Signature(b.implementation) :
        LET p == Signature(b.implementation)[k] IN
        /\ ~skipped(p)
        /\ p.name \notin DOMAIN b.params
        /\ p.annotation \notin DOMAIN registrations}

FirstUnresolvable(b) ==
    Signature(b.implementation)[CHOOSE k \in Unresolvable(b) : \A j \in Unresolvable(b) : k <= j]

\* the parameters before position k are skipped or given as literals
LiteralBefore(b, k) ==
    \A j \in 1..(k - 1) :
        LET p == Signature(b.implementation)[j] IN skipped(p) \/ p.name \in DOMAIN b.params

\* the objects reachable from the objects of S through constructor arguments
Refs(o) == {heap[o].kwargs[n].v : n \in {m \in DOMAIN heap[o].kwargs : heap[o].kwargs[m].ref}}
RECURSIVE Reach(_)
Reach(S) ==
    LET T == S \cup UNION {Refs(o) : o \in S} IN IF T = S THEN S ELSE Reach(T)

Range(f) == {f[x] : x \in DOMAIN f}

(* ------------------------------------------------------------------ C1 *)
\* C1: Singleton identity.  Whatever the host does in between, all successful
\* get_instance calls for one contract made while its binding is Singleton
\* return the same object.
SingletonIdentity ==
    \A r1, r2 \in returned :
        ( /\ r1.interface = r2.interface
          /\ "Singleton" \in r1.lifestyles
          /\ "Singleton" \in r2.lifestyles ) => r1.inst = r2.inst

\* a Singleton contract is served a second time, after it was registered anew
\* with a binding that would not build the object served
SingletonServedAgain ==
    /\ LastGetOk
    /\ LastLifestyle = "Singleton"
    /\ last.seen
    /\ ~Accords(last.inst, LastBinding)

(* ------------------------------------------------------------------ C2 *)
\* C2 as stated: two successful get_instance calls for a Scoped contract made
\* between the entry and the exit of one bracket return the same object, whatever
\* the host does inside the bracket (entering a nested bracket included).
ScopedIdentityInBracket ==
    \A r1, r2 \in returned :
        (r1.interface = r2.interface /\ r1.levels \cap r2.levels # {}) => r1.inst = r2.inst

\* C2 amended: two successful get_instance calls for a Scoped contract made
\* directly in one bracket, no other bracket being entered between them, return
\* the same object.
ScopedIdentityDirect ==
    \A r1, r2 \in returned :
        (r1.interface = r2.interface /\ r1.cur /\ r2.cur) => r1.inst = r2.inst

\* a Scoped contract's built instance is served a second time in its bracket
ScopedServedAgain ==
    /\ LastGetOk
    /\ LastLifestyle = "Scoped"
    /\ last.seen
    /\ heap[last.inst].built_for = last.interface
    /\ RecordOf(returned, last.interface, last.inst).cur

(* ------------------------------------------------------------------ C3 *)
\* C3 as stated: a Scoped get_instance in a bracket that started after an earlier
\* bracket exited never returns an object returned for the contract in the earlier
\* bracket, and the scoped store is empty when a bracket starts.
NoLeakAcrossScopes ==
    /\ \A r \in returned : ~(r.prior /\ r.cur)
    /\ last.op = "enter" => scoped_instances = << >>

\* C3 amended: ... never returns an object that a resolution built (by a
\* constructor or by a factory that allocates) in the earlier bracket; only an
\* object that the contract's factory hands out again by itself is returned in
\* both.  The scoped store is empty when a bracket starts.
NoBuiltLeakAcrossScopes ==
    /\ \A r \in returned : (r.prior /\ r.cur) => heap[r.inst].built_for = "None"
    /\ last.op = "enter" => scoped_instances = << >>

\* a Scoped contract, served a built object in an earlier bracket, is served
\* another object in a later one
LaterScopeServed ==
    /\ LastGetOk
    /\ LastLifestyle = "Scoped"
    /\ \E r \in returned :
         /\ r.interface = last.interface
         /\ r.prior
         /\ heap[r.inst].built_for = last.interface
         /\ r.inst # last.inst

(* ------------------------------------------------------------------ C4 *)
\* C4 as stated: a successful get_instance of a PerRequest contract, bound to an
\* implementation or to a factory, never returns an object that an earlier
\* get_instance of the contract returned.
PerRequestFresh ==
    (LastGetOk /\ LastLifestyle = "PerRequest") => ~last.seen

\* C4 amended: ... bound to an implementation or to a factory that allocates a
\* new object at each call ...
PerRequestFreshIfAllocating ==
    (LastGetOk /\ LastLifestyle = "PerRequest" /\ LastBinding.factory # "shared")
        => ~last.seen

\* a PerRequest contract is served for the second time
PerRequestServedTwice ==
    /\ LastGetOk
    /\ LastLifestyle = "PerRequest"
    /\ LastBinding.factory # "shared"
    /\ \E r \in returned : r.interface = last.interface /\ r.inst # last.inst

(* ------------------------------------------------------------------ C5 *)
\* C5: when a get_instance, of the host or of a constructor dependency, asks for
\* a Scoped contract while the scope flag is false, the host's call fails with
\* ScopeInactive, and no object of that contract is built or put in a store.
ScopedOutsideScopeFails ==
    [][ last'.op = "get_instance" =>
          \A k \in DOMAIN last'.trace :
             LET e == last'.trace[k] IN
             ( /\ e.ev = "request"
               /\ ~e.active
               /\ e.interface \in DOMAIN registrations
               /\ registrations[e.interface].lifestyle = "Scoped" )
             => /\ ~last'.ok
                /\ last'.err = "ScopeInactive"
                /\ \A j \in DOMAIN last'.trace :
                      last'.trace[j].ev \in {"construct", "factory"}
                         => last'.trace[j].interface # e.interface
                /\ \A o \in (Len(heap) + 1)..Len(heap') : heap'[o].built_for # e.interface
                /\ e.interface \notin DOMAIN scoped_instances'
                /\ (e.interface \in DOMAIN singletons') = (e.interface \in DOMAIN singletons)
      ]_vars

\* the Scoped contract was reached as a constructor dependency of another contract
ScopedDependencyRefused ==
    /\ LastGet
    /\ ~last.ok
    /\ last.err = "ScopeInactive"
    /\ LastLifestyle # "Scoped"
    /\ \E e \in Events : e.ev = "request" /\ e.interface # last.interface

(* ------------------------------------------------------------------ C6 *)
\* C6: get_instance of a contract that is not in the registry fails with
\* UnregisteredContract and changes nothing in the Injector.
UnregisteredFails ==
    [][ (last'.op = "get_instance" /\ last'.interface \notin DOMAIN registrations) =>
          /\ ~last'.ok
          /\ last'.err = "UnregisteredContract"
          /\ UNCHANGED << registrations, singletons, scoped_instances, scope_active, heap >>
      ]_vars

\* an unregistered contract is refused by an Injector that holds instances
UnregisteredRefused ==
    /\ LastGet
    /\ last.err = "UnregisteredContract"
    /\ DOMAIN singletons # {}
    /\ scope_active

(* ------------------------------------------------------------------ C7 *)
\* C7 as stated: if the implementation bound to a contract has an unresolvable
\* parameter, get_instance of the contract fails with UnresolvableDependency
\* naming the first of them, and the constructor is not invoked.
UnresolvableAlwaysFails ==
    ( /\ LastGet
      /\ last.interface \in DOMAIN registrations
      /\ LastBinding.factory = "None"
      /\ Unresolvable(LastBinding) # {} )
    => /\ ~last.ok
       /\ last.err = "UnresolvableDependency"
       /\ last.name = FirstUnresolvable(LastBinding).name
       /\ \A e \in Events : e.ev = "construct" => e.interface # last.interface

\* C7 amended: ... whenever a get_instance reaches the build of the contract (it
\* is not served from a store nor refused for its scope) and the parameters
\* declared before the first unresolvable one are obtained, the host's call
\* fails with UnresolvableDependency naming that parameter and the
\* implementation; the constructor is not invoked.
UnresolvableFailsAtBuild ==
    LastGet =>
      \A e \in Events :
         ( /\ e.ev = "create"
           /\ registrations[e.interface].factory = "None"
           /\ Unresolvable(registrations[e.interface]) # {}
           /\ LiteralBefore(registrations[e.interface],
                            CHOOSE k \in Unresolvable(registrations[e.interface]) :
                               \A j \in Unresolvable(registrations[e.interface]) : k <= j) )
         => /\ ~last.ok
            /\ last.err = "UnresolvableDependency"
            /\ last.name = FirstUnresolvable(registrations[e.interface]).name
            /\ last.impl = registrations[e.interface].implementation
            /\ \A c \in Events : c.ev = "construct" => c.interface # e.interface

\* two parameters are unresolvable and the first one is named
UnresolvableRefused ==
    /\ LastGet
    /\ last.err = "UnresolvableDependency"
    /\ Cardinality(Unresolvable(LastBinding)) = 2
    /\ last.name = "name"

(* ------------------------------------------------------------------ C8 *)
\* C8: when a bracket is left, by its body ending or by an error passing through
\* it, the scope flag is false and the scoped store is empty.
ScopeReleased ==
    last.op \in {"exit", "exit_error"} => (~scope_active /\ scoped_instances = << >>)

\* a bracket in which a Scoped instance was served is left by a failed get_instance
ReleasedOnError ==
    /\ last.op = "exit_error"
    /\ \E r \in returned : r.exited /\ r.levels = {}
    /\ brackets = 0

(* ------------------------------------------------------------------ C9 *)
\* C9: once all brackets have exited, no object built for a Scoped contract is in
\* a store or reachable from an object that a store holds or that the latest
\* get_instance returned.
NoScopedSurvivor ==
    brackets = 0 =>
       \A o \in DOMAIN heap :
          heap[o].lifestyle = "Scoped" =>
             o \notin Reach(Range(singletons) \cup Range(scoped_instances)
                            \cup (IF LastGetOk THEN {last.inst} ELSE {}))

(* ----------------------------------------------------------------- C10 *)
\* C10 as stated: a successful get_instance returns an object that accords with
\* the binding most recently registered for the contract.
LastRegistrationWins ==
    LastGetOk => Accords(last.inst, latest[last.interface])

\* C10 amended: the registry holds, for every contract, the binding most recently
\* registered; every object built during a get_instance accords with the latest
\* binding of its contract, and a contract whose latest binding is PerRequest is
\* served an object built by that call.  (An object cached under an overwritten
\* binding is still served from the store.)
LatestBindingBuilds ==
    /\ registrations = latest
    /\ LastGet =>
         /\ \A e \in Builds : Accords(e.obj, latest[e.interface])
         /\ (last.ok /\ latest[last.interface].lifestyle = "PerRequest")
               => \E e \in Builds : e.interface = last.interface /\ e.obj = last.inst

\* a contract served before is served, after a register, an object of another make
RebuiltAfterRegister ==
    /\ LastGetOk
    /\ \E e \in Builds : e.interface = last.interface /\ e.obj = last.inst
    /\ \E r \in returned :
         /\ r.interface = last.interface
         /\ r.inst # last.inst
         /\ ~Accords(r.inst, latest[last.interface])

(* ----------------------------------------------------------------- C11 *)
\* C11: factory precedence.  Whenever a get_instance reaches the build of a
\* contract whose binding has a factory, the very next thing done is the call of
\* the factory: no parameter is inspected, no dependency is requested, the
\* implementation is not constructed, and the host's call does not fail with
\* UnresolvableDependency on account of that binding.  What the factory returns is
\* an object made by the factory alone (the binding's implementation and params
\* leave no mark on it), and it is stored as the binding's lifestyle says.
FactoryPrecedence ==
    LastGet =>
      \A k \in DOMAIN last.trace :
         LET e == last.trace[k]
             b == registrations[e.interface]
         IN (e.ev = "create" /\ b.factory # "None") =>
              /\ k < Len(last.trace)
              /\ last.trace[k + 1].ev \in {"factory", "raise"}
              /\ last.trace[k + 1].interface = e.interface
              /\ last.trace[k + 1].impl = b.factory
              /\ \A j \in DOMAIN last.trace :
                    last.trace[j].ev = "construct" => last.trace[j].interface # e.interface
              /\ ~(last.err = "UnresolvableDependency" /\ last.impl = b.implementation)
              /\ last.trace[k + 1].ev = "factory" =>
                    LET o == last.trace[k + 1].obj IN
                    /\ heap[o].cls = "FactoryClass"
                    /\ heap[o].kwargs = << >>
                    /\ b.lifestyle = "Singleton" =>
                          (e.interface \in DOMAIN singletons /\ singletons[e.interface] = o)
                    /\ b.lifestyle = "Scoped" =>
                          (e.interface \in DOMAIN scoped_instances /\ scoped_instances[e.interface] = o)
                    /\ e.interface = last.interface => (last.ok /\ last.inst = o)

\* a Singleton contract registered with a factory and, beside it, an implementation
\* with an unresolvable parameter and a params dictionary, is served from the
\* store the second time
FactoryWithImplementationServed ==
    /\ LastGetOk
    /\ LastBinding.factory = "fresh"
    /\ LastBinding.implementation = "ParametrizedClass"
    /\ LastBinding.params # NoParams
    /\ Unresolvable(LastBinding) # {}
    /\ last.seen
    /\ heap[last.inst].cls = "FactoryClass"

(* ----------------------------------------------------------------- C12 *)
\* the contracts whose request, by the host or for a constructor parameter, did
\* not end in an object during the last operation
Requested == {e.interface : e \in {x \in Events : x.ev = "request"}}
Obtained == {e.interface : e \in {x \in Events : x.ev \in {"hit", "construct", "factory"}}}
FailedRequests == Requested \ Obtained

\* C12: no partial success.  After a get_instance that failed, for whatever
\* reason, no store holds an entry for the contract whose request failed (the
\* registry of this host being fixed, an entry that was there before the call would
\* have been served), and a get_instance of that contract made next is not served
\* from a store: it goes through the build again wherever the failed call did.
NoPartialSuccess ==
    (LastGet /\ ~last.ok) =>
       /\ last.interface \in FailedRequests \/ last.err = "RecursionError"
       /\ \A d \in FailedRequests :
            /\ d \notin DOMAIN singletons
            /\ d \notin DOMAIN scoped_instances
            /\ LET r == get_instance(Self, d, 1) IN
               /\ \A j \in DOMAIN r.self.trace :
                     r.self.trace[j].ev = "hit" => r.self.trace[j].interface # d
               /\ (\E e \in Events : e.ev = "create" /\ e.interface = d)
                     => \E j \in DOMAIN r.self.trace :
                           r.self.trace[j].ev = "create" /\ r.self.trace[j].interface = d

\* inside a bracket, a Singleton contract fails to build because the factory of the
\* Singleton contract it depends on raises
FailedBuildLeftNothing ==
    /\ LastGet
    /\ ~last.ok
    /\ last.err = "FactoryError"
    /\ LastLifestyle = "Singleton"
    /\ Cardinality(FailedRequests) = 2
    /\ scope_active

(* ----------------------------------------------------------------- C13 *)
\* The dependency graph of the registry: an edge from a contract bound without a
\* factory to the registered declared type of each parameter of its implementation
\* that the loop does not skip and that has no entry in the binding's params.
Edges(c) ==
    IF c \notin DOMAIN registrations \/ registrations[c].factory # "None" THEN {}
    ELSE LET b == registrations[c]
             sig == Signature(b.implementation)
         IN {sig[k].annotation : k \in {j \in DOMAIN sig :
                /\ ~skipped(sig[j])
                /\ sig[j].name \notin DOMAIN b.params
                /\ sig[j].annotation \in DOMAIN registrations}}

RECURSIVE Closure(_)
Closure(S) ==
    LET T == S \cup UNION {Edges(d) : d \in S} IN IF T = S THEN S ELSE Closure(T)

\* the contracts reached from c by one edge or more; c with them
Below(c) == Closure(Edges(c))
From(c) == {c} \cup Below(c)
OnCycle(c) == c \in Below(c)
Acyclic(c) == \A d \in From(c) : ~OnCycle(d)

\* the errors of the container itself
TypedErrors == {"UnregisteredContract", "ScopeInactive", "UnresolvableDependency"}

\* no factory that get_instance(c) can come to call raises
NoFailingFactory(c) ==
    \A d \in From(c) \cap DOMAIN registrations : registrations[d].factory # "failing"

\* C13 as stated: whatever register calls made the registry, if the dependency
\* graph below c is acyclic and no factory or constructor fails of itself, a
\* get_instance(c) that does not return an instance fails with one of the three
\* errors of the container.
OnlyTypedErrors ==
    (LastGet /\ ~last.ok /\ Acyclic(last.interface) /\ NoFailingFactory(last.interface))
        => last.err \in TypedErrors

\* every binding that get_instance(c) can come to build names a factory or an
\* implementation
Constructible(c) ==
    \A d \in From(c) \cap DOMAIN registrations :
        registrations[d].factory # "None" \/ registrations[d].implementation # "None"

\* C13 amended: ... and every binding in that graph names a factory or an
\* implementation (a register call may name neither, and the build then fails
\* with the TypeError of calling None) ...
OnlyTypedErrorsIfConstructible ==
    ( /\ LastGet
      /\ ~last.ok
      /\ Acyclic(last.interface)
      /\ NoFailingFactory(last.interface)
      /\ Constructible(last.interface) )
    => last.err \in TypedErrors

\* a resolution over two levels of an acyclic, constructible registry fails with
\* an error of the container after a first dependency was obtained and stored
TypedFailureBelow ==
    /\ LastGet
    /\ ~last.ok
    /\ Acyclic(last.interface)
    /\ NoFailingFactory(last.interface)
    /\ Constructible(last.interface)
    /\ Below(last.interface) # {}
    /\ last.err = "UnresolvableDependency"
    /\ Obtained # {}

(* ----------------------------------------------------------------- C14 *)
\* the parameters of b's implementation that the container resolves by their
\* declared type, as positions in the signature
Dependencies(b) ==
    IF b.factory # "None" THEN {}
    ELSE {k \in DOMAIN Signature(b.implementation) :
            LET p == Signature(b.implementation)[k] IN
            /\ ~skipped(p)
            /\ p.name \notin DOMAIN b.params
            /\ p.annotation \in DOMAIN registrations}

\* C14: shared singleton dependency of scoped instances.  An instance built for a
\* Scoped contract holds, for each parameter typed with a Singleton contract, the
\* object that the singleton store holds for that contract, which is the object a
\* direct get_instance of it returns; and the instances that get_instance returns
\* for the Scoped contract in a bracket that has exited and in the current bracket
\* are distinct objects.
SharedSingletonDependency ==
    /\ LastGet =>
         \A e \in Events :
            (e.ev = "construct" /\ registrations[e.interface].lifestyle = "Scoped") =>
               \A k \in Dependencies(registrations[e.interface]) :
                  LET p == Signature(registrations[e.interface].implementation)[k] IN
                  registrations[p.annotation].lifestyle = "Singleton" =>
                     /\ p.annotation \in DOMAIN singletons
                     /\ heap[e.obj].kwargs[p.name] = Ref(singletons[p.annotation])
                     /\ LET r == get_instance(Self, p.annotation, 1) IN
                           r.ok /\ r.inst = singletons[p.annotation]
    /\ \A r1, r2 \in returned :
          ( /\ r1.interface = r2.interface
            /\ registrations[r1.interface].lifestyle = "Scoped"
            /\ Dependencies(registrations[r1.interface]) # {}
            /\ r1.exited
            /\ r2.cur ) => r1.inst # r2.inst

\* in a second bracket the Scoped contract is served a new instance that holds the
\* same singleton as the instance served in the first bracket
SecondScopeSharesSingleton ==
    /\ LastGetOk
    /\ LastLifestyle = "Scoped"
    /\ \E r \in returned :
         /\ r.interface = last.interface
         /\ r.exited
         /\ r.inst # last.inst
         /\ heap[r.inst].kwargs = heap[last.inst].kwargs
         /\ \E n \in DOMAIN heap[last.inst].kwargs :
               /\ heap[last.inst].kwargs[n].ref
               /\ heap[last.inst].kwargs[n].v \in Range(singletons)

(* ----------------------------------------------------------------- C15 *)
\* the position in the last operation's trace where the build that ended in the
\* construct event at position m began
CreateOf(m) ==
    CHOOSE k \in 1..m :
       /\ last.trace[k].ev = "create"
       /\ last.trace[k].interface = last.trace[m].interface
       /\ \A j \in (k + 1)..m :
             ~(last.trace[j].ev = "create" /\ last.trace[j].interface = last.trace[m].interface)

\* C15: explicit params take precedence.  An instance is constructed with the
\* literal of the binding's params for every parameter named there; when the
\* declared type of such a parameter is a registered contract, nothing is done
\* for that contract during the build: it is not requested, not built, not served.
ExplicitParamsFirst ==
    LastGet =>
      \A m \in DOMAIN last.trace :
         last.trace[m].ev = "construct" =>
            LET b == registrations[last.trace[m].interface]
                sig == Signature(b.implementation)
            IN \A i \in DOMAIN sig :
                  (~skipped(sig[i]) /\ sig[i].name \in DOMAIN b.params) =>
                     /\ heap[last.trace[m].obj].kwargs[sig[i].name] = Lit(b.params[sig[i].name])
                     /\ sig[i].annotation \in DOMAIN registrations =>
                           \A j \in CreateOf(m)..m : last.trace[j].interface # sig[i].annotation

\* Class3_Debug is built with a literal as its dep although Interface1 is a
\* registered Singleton contract, and the singleton store stays without Interface1
LiteralDependencyPassed ==
    /\ LastGetOk
    /\ "dep" \in DOMAIN LastBinding.params
    /\ heap[last.inst].kwargs["dep"] = Lit(LastBinding.params["dep"])
    /\ "Interface1" \in DOMAIN registrations
    /\ registrations["Interface1"].lifestyle = "Singleton"
    /\ "Interface1" \notin DOMAIN singletons

(* ----------------------------------------------------------------- C16 *)
\* position j of the last operation's trace is where an object was obtained for
\* contract c, from a build or from a store
ObtainedAt(j, c) ==
    /\ last.trace[j].ev \in {"hit", "construct", "factory"}
    /\ last.trace[j].interface = c

\* C16: depth-first eager ordering.  In every build of an implementation-bound
\* contract, (a) a dependency is requested only after the dependencies of all the
\* parameters declared before it have been obtained, (b) when the constructor is
\* invoked, every dependency has been obtained since the build began, and it is
\* the object passed to the constructor, and (c) whether the host's call succeeds
\* or fails, every object obtained for a Singleton or Scoped contract is in the
\* store of its lifestyle afterwards.
DepthFirstOrder ==
    LastGet =>
      /\ \A k \in DOMAIN last.trace :
            (last.trace[k].ev = "create" /\ registrations[last.trace[k].interface].factory = "None") =>
               LET b == registrations[last.trace[k].interface]
                   sig == Signature(b.implementation)
               IN \A k2 \in Dependencies(b) : \A j2 \in (k + 1)..Len(last.trace) :
                     ( /\ last.trace[j2].ev = "request"
                       /\ last.trace[j2].interface = sig[k2].annotation )
                     => \A k1 \in Dependencies(b) :
                           k1 < k2 => \E j1 \in (k + 1)..(j2 - 1) : ObtainedAt(j1, sig[k1].annotation)
      /\ \A m \in DOMAIN last.trace :
            last.trace[m].ev = "construct" =>
               LET b == registrations[last.trace[m].interface]
                   sig == Signature(b.implementation)
               IN \A k \in Dependencies(b) :
                     \E j \in (CreateOf(m) + 1)..(m - 1) :
                        /\ ObtainedAt(j, sig[k].annotation)
                        /\ heap[last.trace[m].obj].kwargs[sig[k].name] = Ref(last.trace[j].obj)
      /\ \A j \in DOMAIN last.trace :
            \A c \in DOMAIN registrations :
               ObtainedAt(j, c) =>
                  /\ registrations[c].lifestyle = "Singleton" =>
                        (c \in DOMAIN singletons /\ singletons[c] = last.trace[j].obj)
                  /\ registrations[c].lifestyle = "Scoped" =>
                        (c \in DOMAIN scoped_instances /\ scoped_instances[c] = last.trace[j].obj)

\* the build of ParametrizedClass obtains and stores the dependency of its first
\* parameter and then fails on its second
EarlierDependencyKept ==
    /\ LastGet
    /\ ~last.ok
    /\ last.name = "level"
    /\ LastBinding.implementation = "ParametrizedClass"
    /\ \E e \in Events :
          /\ e.ev = "construct"
          /\ e.interface = "str"
          /\ "str" \in DOMAIN singletons \cup DOMAIN scoped_instances

(* ----------------------------------------------------------------- C17 *)
\* C17: fail-late, order-independent registration.  As long as nothing has been
\* built, whatever register call the host makes next stores the binding as given,
\* with no look at the implementation or at what it depends on; and two register
\* calls for distinct contracts made in either order leave the same registry, so
\* that every get_instance made after them has the same outcome, an instance or
\* the same error, in both orders.
RegistrationOrderFree ==
    (last.op \in {"init", "register"} /\ Len(heap) = 1 /\ returned = {}) =>
       \A a \in Contracts : \A x \in CycleArgs(a) :
          /\ a \in DOMAIN register(Self, a, x).registrations
          /\ register(Self, a, x).registrations[a] = x
          /\ \A b \in Contracts \ {a} : \A y \in CycleArgs(b) :
                LET s12 == register(register(Self, a, x), b, y)
                    s21 == register(register(Self, b, y), a, x)
                IN /\ s12.registrations = s21.registrations
                   /\ \A c \in Contracts :
                         /\ get_instance(s12, c, 1).ok = get_instance(s21, c, 1).ok
                         /\ get_instance(s12, c, 1).err = get_instance(s21, c, 1).err

\* ParametrizedClass was registered before the contract of its parameter `name`,
\* nothing has been requested yet, and Interface1 can now be resolved
DependentRegisteredFirst ==
    /\ last.op = "register"
    /\ last.interface = "str"
    /\ nregs = 2
    /\ "Interface1" \in DOMAIN registrations
    /\ registrations["Interface1"].implementation = "ParametrizedClass"
    /\ Len(heap) = 1
    /\ returned = {}
    /\ get_instance(Self, "Interface1", 1).ok

(* ----------------------------------------------------------------- C18 *)
\* the number of get_instance calls that a resolution of c makes at most, c's own
\* included, when the graph below c has no cycle: one for each path from c
RECURSIVE Calls(_)
RECURSIVE SumCalls(_)
Calls(c) == 1 + SumCalls(Edges(c))
SumCalls(S) ==
    IF S = {} THEN 0
    ELSE LET d == CHOOSE x \in S : TRUE IN Calls(d) + SumCalls(S \ {d})

\* C18: termination on acyclic configurations.  If the dependency graph below c
\* has no cycle (and no more contracts in a row than the interpreter allows
\* frames), get_instance(c) ends with an instance or with an error of its own
\* after no more get_instance calls than the graph has paths from c, all of them
\* for contracts of that graph; the recursion never runs to the interpreter's
\* limit.  Only below a cycle does it.
AcyclicTerminates ==
    LastGet =>
       /\ (Acyclic(last.interface) /\ Cardinality(From(last.interface)) <= MaxDepth) =>
             /\ last.err # "RecursionError"
             /\ Requested \subseteq From(last.interface)
             /\ Cardinality({j \in DOMAIN last.trace : last.trace[j].ev = "request"})
                   <= Calls(last.interface)
       /\ last.err = "RecursionError" => \E d \in From(last.interface) : OnCycle(d)

\* a chain of three contracts, as long as the frames allow, is resolved to its end
DeepChainResolved ==
    /\ LastGetOk
    /\ Acyclic(last.interface)
    /\ Cardinality(From(last.interface)) = 3
    /\ Cardinality(Requested) = 3
    /\ Calls(last.interface) = 3

(* ----------------------------------------------------------------- C19 *)
\* C19 as stated: if c lies on a dependency cycle, get_instance(c) returns neither
\* an instance nor one of the errors of the container, whatever the lifestyles of
\* the contracts on the cycle.
CycleNeverReturns ==
    (LastGet /\ OnCycle(last.interface)) => (~last.ok /\ last.err \notin TypedErrors)

\* the contracts on a cycle that a resolution of c can come to
CycleBelow(c) == {d \in From(c) : OnCycle(d)}

\* the first parameter of d's implementation through which the graph leads back to d
CycleParam(d) ==
    LET sig == Signature(registrations[d].implementation)
        K == {k \in Dependencies(registrations[d]) : d \in From(sig[k].annotation)}
    IN CHOOSE k \in K : \A j \in K : k <= j

\* the parameters declared before that one are skipped, given in params, or typed
\* with a contract that resolves
EarlierObtained(d) ==
    LET b == registrations[d]
        sig == Signature(b.implementation)
    IN \A j \in 1..(CycleParam(d) - 1) :
          \/ skipped(sig[j])
          \/ sig[j].name \in DOMAIN b.params
          \/ /\ sig[j].annotation \in DOMAIN registrations
             /\ get_instance(Self, sig[j].annotation, 1).ok

\* nothing keeps a resolution of c from going round the cycle: no contract on it
\* has an entry in the store of its lifestyle, the Scoped ones are not refused,
\* and the parameters before the cycle's parameter are obtained
CycleReached(c) ==
    \A d \in CycleBelow(c) :
       /\ registrations[d].lifestyle = "Singleton" => d \notin DOMAIN singletons
       /\ registrations[d].lifestyle = "Scoped" =>
             (scope_active /\ d \notin DOMAIN scoped_instances)
       /\ EarlierObtained(d)

\* C19 amended: if c lies on a dependency cycle and, when get_instance(c) is
\* called, no contract on the cycle has an entry in the store of its lifestyle,
\* a scope is active if one of them is Scoped, and the parameters declared before
\* the cycle's parameter are obtained, then the call recurses until the
\* interpreter stops it (RecursionError): it returns neither an instance nor an
\* error of the container, whatever the lifestyles on the cycle, and no store
\* gets an entry for a contract on the cycle, an entry being written only after
\* the build has finished.
CycleRecursesWhenReached ==
    [][ ( /\ last'.op = "get_instance"
          /\ OnCycle(last'.interface)
          /\ CycleReached(last'.interface) )
        => /\ ~last'.ok
           /\ last'.err = "RecursionError"
           /\ \A d \in CycleBelow(last'.interface) :
                 /\ d \in DOMAIN singletons' => d \in DOMAIN singletons
                 /\ d \in DOMAIN scoped_instances' => d \in DOMAIN scoped_instances
      ]_vars

\* a cycle of two Singleton contracts is gone round until the interpreter stops it
SingletonCycleOverflows ==
    /\ LastGet
    /\ last.err = "RecursionError"
    /\ Cardinality(CycleBelow(last.interface)) = 2
    /\ \A d \in CycleBelow(last.interface) : registrations[d].lifestyle = "Singleton"
    /\ Cardinality({j \in DOMAIN last.trace : last.trace[j].ev = "create"}) = MaxDepth

(* ----------------------------------------------------------------- C20 *)
\* C20: no nesting support.  Entering a bracket, also while another one is open,
\* leaves an empty scoped store: an instance that was served in a bracket still
\* open, before the latest entry or exit, is not in the store any more.  Leaving
\* a bracket, also while another one is still open, leaves the flag false and the
\* store empty; and whenever the flag is false, inside an open bracket too, every
\* get_instance of a Scoped contract fails with ScopeInactive.
NoNestingSupport ==
    /\ last.op = "enter" => (scope_active /\ scoped_instances = << >>)
    /\ \A r \in returned :
          (r.levels # {} /\ ~r.cur /\ heap[r.inst].built_for # "None")
             => r.inst \notin Range(scoped_instances)
    /\ last.op \in {"exit", "exit_error"} => (~scope_active /\ scoped_instances = << >>)
    /\ ~scope_active =>
          \A c \in DOMAIN registrations :
             registrations[c].lifestyle = "Scoped" =>
                LET r == get_instance(Self, c, 1) IN ~r.ok /\ r.err = "ScopeInactive"

\* in the outer bracket, after an inner bracket has exited, a Scoped contract that
\* was served in the outer bracket before is refused
OuterScopeTornDown ==
    /\ LastGet
    /\ last.err = "ScopeInactive"
    /\ LastLifestyle = "Scoped"
    /\ brackets = 1
    /\ \E r \in returned : r.interface = last.interface /\ 1 \in r.levels

(* ----------------------------------------------------------------- C21 *)
\* C21: the singleton store only grows.  No step of the host (register, also of a
\* contract that has an entry, with another lifestyle or implementation;
\* get_instance; scope entry; scope exit) removes an entry of the singleton store
\* or replaces the instance stored for a contract; and an entry for c appears only
\* in a get_instance during which c was requested while bound as Singleton and a
\* build for c returned the object that the entry holds.
SingletonStoreOnlyGrows ==
    [][ /\ DOMAIN singletons \subseteq DOMAIN singletons'
        /\ \A c \in DOMAIN singletons : singletons'[c] = singletons[c]
        /\ \A c \in DOMAIN singletons' \ DOMAIN singletons :
              /\ last'.op = "get_instance"
              /\ c \in DOMAIN registrations
              /\ registrations[c].lifestyle = "Singleton"
              /\ \E j, k \in DOMAIN last'.trace :
                    /\ j < k
                    /\ last'.trace[j].ev = "request" /\ last'.trace[j].interface = c
                    /\ last'.trace[k].ev \in {"construct", "factory"}
                    /\ last'.trace[k].interface = c
                    /\ last'.trace[k].obj = singletons'[c]
      ]_vars

\* a contract that has an entry in the singleton store was registered again with
\* another lifestyle, and a bracket has exited since: the entry is still there
SingletonEntryOutlivesBinding ==
    /\ last.op = "exit"
    /\ \E c \in DOMAIN singletons :
          /\ registrations[c].lifestyle # "Singleton"
          /\ heap[singletons[c]].cls # registrations[c].implementation

(* ----------------------------------------------------------------- C23 *)
\* C23 as stated: in every reachable state, if the scope flag is false then the
\* scoped store is empty, also when a factory invoked during a Scoped build
\* enters and leaves a create_scope bracket itself.
ScopedStoreEmptyOutsideScopes ==
    ~scope_active => scoped_instances = << >>

\* the last operation went through a create_scope bracket inside a build
BracketInBuild ==
    \E k \in DOMAIN last.trace : last.trace[k].ev = "bracket"

\* C23 amended: while the host has no create_scope bracket open, the scope flag
\* is false and the scoped store is empty.  Inside an open bracket the store is
\* non-empty under a false flag only from a get_instance on, during whose build a
\* factory or constructor went through a create_scope bracket of its own: the
\* build's result is written to the store after that bracket has reset the flag,
\* and it stays there, as no get_instance writes to the store under a false flag,
\* until the next scope entry or exit empties the store.
ScopedStoreEmptyUnlessReentered ==
    [][ /\ brackets' = 0 => (~scope_active' /\ scoped_instances' = << >>)
        /\ (~scope_active' /\ scoped_instances' # << >>) =>
              \/ /\ last'.op = "get_instance"
                 /\ scope_active
                 /\ BracketInBuild'
                 /\ \A c \in DOMAIN scoped_instances' :
                       \E j, k \in DOMAIN last'.trace :
                          /\ j < k
                          /\ last'.trace[j].ev = "bracket"
                          /\ last'.trace[k].ev \in {"construct", "factory"}
                          /\ last'.trace[k].interface = c
                          /\ last'.trace[k].obj = scoped_instances'[c]
              \/ /\ ~scope_active
                 /\ scoped_instances' = scoped_instances
                 /\ last'.op \in {"get_instance", "register"}
      ]_vars

\* in a bracket of the host, a Scoped contract whose factory ran a bracket of its
\* own was served: the flag is false and the scoped store holds the instance
ScopedEntryUnderFalseFlag ==
    /\ LastGetOk
    /\ LastLifestyle = "Scoped"
    /\ LastBinding.factory = "scoping"
    /\ brackets = 1
    /\ ~scope_active
    /\ last.interface \in DOMAIN scoped_instances
    /\ scoped_instances[last.interface] = last.inst

(* ----------------------------------------------------------------- C22 *)
\* the instances the threads' calls have returned for contract c
ResultsOf(c) == {p[2] : p \in {q \in calls.results : q[1] = c}}

\* C22 as stated: when two threads call get_instance(c) for a Singleton contract
\* c and their steps interleave, c's implementation or factory is invoked at most
\* once and the calls return the identical instance.
AtMostOneConstruction ==
    \A c \in DOMAIN registrations :
       /\ Count(calls.invocations, c) <= 1
       /\ Cardinality(ResultsOf(c)) <= 1

\* C22 amended: the Injector has no mutual exclusion, so each of the calls that
\* check the store before the first instance is stored builds one of its own: the
\* implementation or factory is invoked at most once per thread, every call
\* returns an instance that one of the calls built for c, and a call that begins
\* after an instance was stored builds nothing.  It is invoked at most once, and
\* all calls return the identical instance, if no call checks the store between
\* another call's check and its store, which is what mutual exclusion around the
\* check-then-create gives.
AtMostOneConstructionPerThread ==
    \A c \in DOMAIN registrations :
       /\ Count(calls.invocations, c) <= Cardinality(Threads)
       /\ Cardinality(ResultsOf(c)) <= Count(calls.invocations, c)
       /\ \A o \in ResultsOf(c) : Accords(o, registrations[c])
       /\ c \notin calls.overlap =>
             /\ Count(calls.invocations, c) <= 1
             /\ Cardinality(ResultsOf(c)) <= 1
       /\ \A t \in Threads :
             (threads[t].interface = c /\ threads[t].pc \in {"build", "store"})
                => (c \notin DOMAIN singletons \/ c \in calls.overlap)

\* both threads found no entry, both built, and their calls returned two instances
TwoInstancesReturned ==
    \E c \in DOMAIN registrations :
       /\ c \in calls.overlap
       /\ Count(calls.invocations, c) = 2
       /\ Cardinality(ResultsOf(c)) = 2
       /\ \A t \in Threads : threads[t].pc = "idle"

(* ----------------------------------------------------------------- C24 *)
\* the PrintCommands the keyboard reaches all write to the keyboard's text_output
PrintCommandsShare ==
    \A c \in Range(kb.commands) \cup Range(kb.history) \cup Range(kb.redo_stack) :
       Commands[c].cls = "PrintCommand" => Commands[c].output = "text_output"

\* the chars of the PrintCommands of a sequence of commands, in order
RECURSIVE Chars(_)
Chars(q) ==
    IF q = << >> THEN << >>
    ELSE IF Commands[Head(q)].cls = "PrintCommand"
    THEN << Commands[Head(q)].char >> \o Chars(Tail(q))
    ELSE Chars(Tail(q))

\* C24: for a Keyboard whose PrintCommands all write to the keyboard's
\* text_output, after any sequence of associate_key, press_key, undo and redo,
\* text_output is the sequence of the chars of the PrintCommands in history, in
\* the order of history.
TextMatchesHistory ==
    PrintCommandsShare => kb.text_output = Chars(kb.history)

\* a PrintCommand was undone: it is on the redo stack, and of the two commands
\* left in history one is a PrintCommand, whose char is the text
TextAfterUndo ==
    /\ kb_last.op = "undo"
    /\ PrintCommandsShare
    /\ Len(kb.redo_stack) = 1
    /\ Commands[kb.redo_stack[1]].cls = "PrintCommand"
    /\ Len(kb.history) = 2
    /\ Len(kb.text_output) = 1

(* ----------------------------------------------------------------- C25 *)
\* C25: the undo/redo protocol, in every state the keyboard can be in.
\* press_key on a bound key appends the key's command to history and empties
\* the redo stack; press_key on an unbound key changes nothing.  With a
\* non-empty history, undo followed immediately by redo gives back the history,
\* the redo stack and the text_output from before the undo.  undo on an empty
\* history and redo on an empty redo stack change nothing.  Neither undo nor
\* redo changes len(history) + len(redo_stack).
UndoRedoProtocol ==
    /\ \A key \in Keys :
          IF key \in DOMAIN kb.commands
          THEN /\ press_key(kb, key).history = Append(kb.history, kb.commands[key])
               /\ press_key(kb, key).redo_stack = << >>
          ELSE press_key(kb, key) = kb
    /\ kb.history # << >> =>
          /\ redo(undo(kb)).history = kb.history
          /\ redo(undo(kb)).redo_stack = kb.redo_stack
          /\ redo(undo(kb)).text_output = kb.text_output
    /\ kb.history = << >> => undo(kb) = kb
    /\ kb.redo_stack = << >> => redo(kb) = kb
    /\ Len(undo(kb).history) + Len(undo(kb).redo_stack)
          = Len(kb.history) + Len(kb.redo_stack)
    /\ Len(redo(kb).history) + Len(redo(kb).redo_stack)
          = Len(kb.history) + Len(kb.redo_stack)

\* a redo has put a PrintCommand back on a history that holds another command
\* below it, while a command undone earlier still waits on the redo stack
RedoneAfterUndo ==
    /\ kb_last.op = "redo"
    /\ Len(kb.history) = 2
    /\ Commands[kb.history[2]].cls = "PrintCommand"
    /\ Commands[kb.history[2]].output = "text_output"
    /\ kb.text_output # << >>
    /\ kb.redo_stack # << >>

(* ----------------------------------------------------------------- C26 *)
\* the calls to changing-listeners that the last operation on the person made
Consulted == {i \in DOMAIN person.log : person.log[i].ev = "changing"}

\* every registered changing-listener returns True for this assignment
AllAccept(property_name, old_value, new_value) ==
    \A i \in DOMAIN person._changing_listeners :
       on_property_changing(person._changing_listeners[i],
                            property_name, old_value, new_value) = "True"

\* C26: the property veto.  An assignment to name or age first consults the
\* changing-listeners in the order of their registration, while the person still
\* holds the old value.  If one of them returns False, the value stays as it
\* was, the changing-listeners registered after it are not consulted and no
\* changed-listener is notified.  If all of them return True, the value is set
\* and after that every changed-listener is notified, once for each of its
\* registrations and in the order of registration, the person holding the new
\* value by then.
PropertyVeto ==
    person_last.op = "assign" =>
       LET log == person.log
           property_name == person_last.property
           K == Cardinality(Consulted)
           L == person._changing_listeners
           C == person._change_listeners
       IN /\ Consulted = 1..K
          /\ K <= Len(L)
          /\ \A i \in 1..K :
                /\ log[i].listener = L[i]
                /\ log[i].property = property_name
                /\ log[i].held = person_last.before
                /\ log[i].ret =
                      on_property_changing(L[i], property_name,
                                           person_last.before, person_last.arg)
          /\ (\E i \in 1..K : log[i].ret = "False") =>
                /\ log[K].ret = "False"
                /\ \A i \in 1..(K - 1) : log[i].ret # "False"
                /\ Len(log) = K
                /\ Stored(person, property_name) = person_last.before
          /\ AllAccept(property_name, person_last.before, person_last.arg) =>
                /\ K = Len(L)
                /\ Len(log) = K + 1 + Len(C)
                /\ log[K + 1].ev = "set"
                /\ Stored(person, property_name) = person_last.arg
                /\ \A j \in 1..Len(C) :
                      /\ log[K + 1 + j].ev = "changed"
                      /\ log[K + 1 + j].listener = C[j]
                      /\ log[K + 1 + j].property = property_name
                      /\ log[K + 1 + j].held = person_last.arg

\* an assignment was refused by the first of two changing-listeners while a
\* changed-listener was registered
VetoedByFirst ==
    /\ person_last.op = "assign"
    /\ Len(person._changing_listeners) = 2
    /\ person._change_listeners # << >>
    /\ Len(person.log) = 1
    /\ person.log[1].ret = "False"
    /\ person_last.arg # person_last.before
    /\ Stored(person, person_last.property) = person_last.before

====
